---- MODULE Spec2Model ----
(***************************************************************************)
(* CostPilot: ingestion -> identity/dedup -> aggregation pipeline.         *)
(*                                                                         *)
(* The Session-Log adapter (auto_logger.py, openclaw mode) and the event   *)
(* store / snapshot cache of the HTTP server (server.py).                  *)
(*                                                                         *)
(* Optional values (Python None / a missing key) are sequences of length   *)
(* at most one: <<>> is None, <<v>> is the value v.                        *)
(* Time is counted in whole clock ticks; TicksPerSec ticks make a second.  *)
(***************************************************************************)
EXTENDS Integers, Sequences, FiniteSets, TLC

\* ---- bounds -------------------------------------------------------------
MaxTs       == 2    \* message timestamps range over 0..MaxTs
MaxMsgs     == 2    \* messages per session file
MaxStore    == 3    \* lines the adapter may leave in the events file
MaxLines    == 2    \* lines in the events file the server works on
MaxClock    == 3    \* wall clock ticks
TicksPerSec == 2    \* clock resolution: ticks per second

None == <<>>
Some(v) == <<v>>

\* Python truthiness of an optional number: None and 0 are falsy.
Truthy(o) == o # None /\ o[1] # 0

\* ---- universe of the Session-Log adapter ---------------------------------
\* sorted(glob("*.jsonl")): the session files in the order _run visits them
jsonl_files == <<"s1", "s2">>
Uuids == {jsonl_files[i] : i \in 1..Len(jsonl_files)}

\* One line of a session file: the raw "timestamp" and usage.cost.total.
\* iso = FALSE stands for a missing timestamp or one fromisoformat rejects;
\* total = 0 stands for every line without a cost (user turns, no usage).
RawTs == {[iso |-> TRUE, sec |-> t] : t \in 0..MaxTs} \cup {[iso |-> FALSE, sec |-> 0]}
NoTs  == [iso |-> FALSE, sec |-> 0]
Msgs  == [timestamp : RawTs \ {NoTs}, total : {1}]
           \cup {[timestamp |-> NoTs, total |-> 1], [timestamp |-> [iso |-> TRUE, sec |-> 1], total |-> 0]}

VARIABLES
    jsonl,          \* session files: uuid -> sequence of Msgs
    state_file,     \* auto-logger-state.json: uuid -> optional cursor
    exclude,        \* config exclude_sessions
    last_run_file,  \* auto-logger-last-run.json: optional run summary
    events_file,    \* cost-events.jsonl: sequence of lines
    events_exists,  \* whether cost-events.jsonl exists
    file_mtime,     \* modification time of cost-events.jsonl
    now,            \* wall clock
    emitted,        \* history: uuid -> per message, times written to the store
    gained,         \* history: no non-dry run yet, or a session file gained a line since the last one
    faulted,        \* history: some run met an I/O failure
    _events_cache,        \* server.py globals of load_events
    _events_mtime,
    _events_demo_mode,
    _malformed_count,
    _SESSION_LABEL_CACHE, \* anonymous label -> optional enriched label
    _state_cache,         \* server.py globals of build_state
    _state_cache_ts,
    archive_file,         \* cost-events-archive.jsonl: sequence of events
    backup,               \* backups/<day>-pre-clear.jsonl: optional copy of the store
    resp,                 \* the response of the most recent server request
    _events_write_lock,   \* server.py threading.Lock: "" or the thread holding it
    m_pc,                 \* maintenance request thread: position in its handler
    m_op,                 \* maintenance request thread: the operation served
    m_lines,              \* maintenance request thread: events it is about to write
    m_archive,            \* maintenance request thread: events it is about to archive
    appended,             \* history: timestamps of the events writers appended
    _sse_clients,         \* server.py: the subscriber queues, in registration order
    sse_queue,            \* content of each subscriber's queue.Queue
    h_pc,                 \* _sse_handler thread of each subscriber: position
    h_msg,                \* _sse_handler: the message taken from the queue, if any
    conn,                 \* each subscriber's connection: "open", "stalled", "broken"
    delivered,            \* history: messages written to each subscriber's connection
    enqueued,             \* history: tick messages put on each subscriber's queue
    bc_pc,                \* sse_broadcaster thread: position
    bc_msg,               \* sse_broadcaster: the message of the tick in progress
    ticks,                \* number of broadcaster ticks that found subscribers
    ground_truth,         \* anthropic_ground_truth.json "daily": day -> cost_usd
    kpi,                  \* the cost figures of the most recent snapshot, if any
    adapter_log,          \* history: the most recent adapter invocation and their number
    csv_file,             \* the exported CSV file: its rows
    csv_report,           \* what the last csv run printed: rows read, rows skipped, events
    lock_owner,           \* server.py threading.Lock objects: lock -> "" or the thread holding it
    t_prog,               \* each server thread: the lock operations its request has yet to do
    annotations_file,     \* annotations.json: the ids of the stored annotations
    a_pc,                 \* annotation request of each thread: position in the handler
    a_req,                \* annotation request of each thread: operation and annotation id
    a_annos,              \* annotation request of each thread: its local annos dict
    anno_next,            \* number of annotation ids drawn so far
    anno_added,           \* history: ids whose addition was answered ok
    anno_deleted,         \* history: ids whose deletion was answered ok
    lbl_in,               \* auto_logger.py _run: session key, overrides, cron names, session file label
    lbl_out,              \* auto_logger.py _run: the label given to the session, if any yet
    _rate_limits,         \* server.py: rate-limit key -> time of the last allowed call, 0 at first
    rate_allowed,         \* history: key -> time of the last call answered allowed, if any
    rate_denied,          \* history: key -> some call was answered rate-limited
    eff_in,               \* compute_efficiency: whether today has events, and the rules whose test holds
    eff_out,              \* compute_efficiency: the result, if computed
    pct_in,               \* percentile: the list of costs and pct
    pct_out,              \* percentile: the value returned, in hundredths, if computed
    i_pc,                 \* import request of each thread: position in _import_events
    i_acc,                \* import request of each thread: new_events, bad and dupes of its loop
    imported_total,        \* history: sum of the imported counts of the answered requests
    pid_file,  \* auto_logger.py PID_FILE: the instance whose pid it holds, if it exists
    p_pc,  \* each adapter instance: position in main
    pr_in,  \* _run_openai: the config pricing table and one usage bucket
    pr_out,  \* _run_openai: the pricing entry used for the bucket and its cost, if computed
    flag_in,  \* _build_state_inner: the events of the store, for the recurring and anomaly flags
    flag_out,  \* _build_state_inner: the flags of recent_tasks and the ids of anomaly_list, if computed
    fc_in,  \* _build_state_inner: the costs of the 7 rows of weekly_chart, in dollars
    fc_out,  \* _build_state_inner: the costs of forecast_3d, in 1/10000 dollar, if computed
    burst_in,  \* compute_efficiency: the events of today, for the burst analysis
    burst_out,  \* compute_efficiency: bursts, and the message_batching rule if it fired, once computed
    alert_cfg,  \* config.json: notify_on_threshold, whether webhook_url is set, daily_budget_usd
    today_cost,  \* kpi.today_cost of the snapshot _build_state_inner would compute now
    _threshold_alerted,  \* server.py global of check_threshold_alert
    alert_attempts,  \* history: number of webhook send attempts
    seen_below  \* history: a check has observed the cost below the budget since the last attempt

logger_vars == <<jsonl, state_file, exclude, last_run_file, emitted, gained, faulted>>
store_vars  == <<events_file, events_exists, file_mtime>>
cache_vars  == <<_events_cache, _events_mtime, _events_demo_mode, _malformed_count,
                 _SESSION_LABEL_CACHE>>
server_vars == <<cache_vars, _state_cache, _state_cache_ts, archive_file, backup, resp>>
lock_vars   == <<_events_write_lock, m_pc, m_op, m_lines, m_archive, appended>>
kpi_vars    == <<ground_truth, kpi>>
adapter_vars == <<adapter_log, csv_file, csv_report>>
thread_vars == <<lock_owner, t_prog>>
anno_vars   == <<annotations_file, a_pc, a_req, a_annos, anno_next, anno_added, anno_deleted>>
label_vars  == <<lbl_in, lbl_out>>
rate_vars   == <<_rate_limits, rate_allowed, rate_denied>>
eff_vars    == <<eff_in, eff_out>>
pct_vars    == <<pct_in, pct_out>>
import_vars == <<i_pc, i_acc, imported_total>>
pid_vars    == <<pid_file, p_pc>>
pricing_vars == <<pr_in, pr_out>>
flag_vars   == <<flag_in, flag_out>>
forecast_vars == <<fc_in, fc_out>>
burst_vars  == <<burst_in, burst_out>>
alert_vars  == <<alert_cfg, today_cost, _threshold_alerted, alert_attempts, seen_below>>
more_vars   == <<pid_vars, pricing_vars, flag_vars, forecast_vars, burst_vars, alert_vars>>
ext_vars    == <<thread_vars, anno_vars, label_vars, rate_vars, eff_vars, pct_vars,
                 import_vars, more_vars>>
sse_vars    == <<_sse_clients, sse_queue, h_pc, h_msg, conn, delivered, enqueued,
                 bc_pc, bc_msg, ticks>>

\* ---- event records -------------------------------------------------------
Event(ts, task, cost, session, model, id) ==
    [ts |-> ts, task |-> task, cost_usd |-> cost, session |-> session,
     model |-> model, id |-> id]

NullEvent == Event(0, "", 0, "", "", None)

\* A line of the events file: a JSON object, unparseable text, or valid JSON
\* that is not an object (number, string, array, null).
ObjLine(ev) == [kind |-> "obj", ev |-> ev]
BadLine     == [kind |-> "bad", ev |-> NullEvent]
ScalarLine  == [kind |-> "scalar", ev |-> NullEvent]

\* ---- auto_logger.py ------------------------------------------------------
parse_ts(raw) == IF raw.iso THEN Some(raw.sec) ELSE None

\* Label _run gives a session (uuid -> session key -> session_label, then the
\* content-derived label for anonymous ones).
run_label(uuid) == IF uuid = "s1" THEN "KIRA" ELSE "Sonnet · h0"

DEFAULT_MODEL == "claude-sonnet-4-6"

\* The body of the loop of process_jsonl for line i: acc is
\* [idx |-> indices emitted so far, new_max_ts |-> optional maximum].
process_line(lines, i, last_ts, acc) ==
    LET msg    == lines[i]
        msg_ts == parse_ts(msg.timestamp)
    IN  IF msg.total = 0 THEN acc
        ELSE IF msg_ts = None THEN acc
        ELSE IF Truthy(last_ts) /\ msg_ts[1] <= last_ts[1] THEN acc
        ELSE [idx        |-> Append(acc.idx, i),
              new_max_ts |-> IF acc.new_max_ts = None \/ msg_ts[1] > acc.new_max_ts[1]
                             THEN msg_ts ELSE acc.new_max_ts]

RECURSIVE process_lines(_, _, _, _)
process_lines(lines, i, last_ts, acc) ==
    IF i > Len(lines) THEN acc
    ELSE process_lines(lines, i + 1, last_ts, process_line(lines, i, last_ts, acc))

\* process_jsonl: the indices of the lines that become events, the events
\* and the new maximum timestamp.
process_jsonl(uuid, lines, last_ts, label) ==
    LET r == process_lines(lines, 1, last_ts, [idx |-> <<>>, new_max_ts |-> last_ts])
    IN  [idx        |-> r.idx,
         events     |-> [k \in 1..Len(r.idx) |->
                            Event(parse_ts(lines[r.idx[k]].timestamp)[1], label,
                                  lines[r.idx[k]].total, uuid, DEFAULT_MODEL, None)],
         new_max_ts |-> r.new_max_ts]

\* load_state: state.get(uuid)
load_state(uuid) == state_file[uuid]

\* Result of process_jsonl for the file of uuid in the current state.
scan(uuid) == process_jsonl(uuid, jsonl[uuid], load_state(uuid), run_label(uuid))

\* The loop of _run over the session files: all_events in file order.
RECURSIVE run_all_events(_)
run_all_events(k) ==
    IF k > Len(jsonl_files) THEN <<>>
    ELSE LET uuid == jsonl_files[k]
         IN  (IF uuid \in exclude THEN <<>> ELSE scan(uuid).events) \o run_all_events(k + 1)

\* new_state after the loop of _run.
run_new_state ==
    [uuid \in Uuids |->
        IF uuid \notin exclude /\ Truthy(scan(uuid).new_max_ts)
        THEN scan(uuid).new_max_ts ELSE state_file[uuid]]

files_with_new == Cardinality({u \in Uuids \ exclude : scan(u).events # <<>>})

RECURSIVE SumCost(_)
SumCost(evs) == IF evs = <<>> THEN 0 ELSE Head(evs).cost_usd + SumCost(Tail(evs))

\* write_events_locked of auto_logger.py: append the lines to the store.
logger_write_events(new_events) ==
    /\ events_file'   = events_file \o [k \in 1..Len(new_events) |-> ObjLine(new_events[k])]
    /\ events_exists' = TRUE
    /\ file_mtime'    = now

\* Outcomes of the file operations of one run:
\*   "ok"          every operation succeeds
\*   "append_fail" open/write of the events file raises (the run aborts)
\*   "save_open"   save_state: open(fpath, "w") raises, the file is untouched
\*   "save_dump"   save_state: the file is truncated, then the dump raises
Faults == {"ok", "append_fail", "save_open", "save_dump"}

bump(uuid) ==
    LET idx == IF uuid \in exclude THEN <<>> ELSE scan(uuid).idx
        hit == {idx[k] : k \in 1..Len(idx)}
    IN  [i \in 1..Len(emitted[uuid]) |->
            IF i \in hit THEN emitted[uuid][i] + 1 ELSE emitted[uuid][i]]

\* _run(args, run_start) for one invocation of the adapter.
Run(dry_run, fault) ==
    LET all_events == run_all_events(1)
        writes     == all_events # <<>> /\ ~dry_run
        aborted    == writes /\ fault = "append_fail"
        summary    == [status |-> "ok", files_with_new |-> files_with_new,
                       events_logged |-> IF dry_run THEN 0 ELSE Len(all_events),
                       total_cost_usd |-> SumCost(all_events), dry_run |-> dry_run]
    IN  /\ Len(events_file) + Len(all_events) <= MaxStore
        /\ dry_run => fault = "ok"
        /\ fault = "append_fail" => writes
        /\ IF writes /\ ~aborted
           THEN /\ logger_write_events(all_events)
                /\ emitted' = [u \in Uuids |-> bump(u)]
           ELSE UNCHANGED <<store_vars, emitted>>
        /\ state_file' =
             IF dry_run \/ aborted \/ fault = "save_open" THEN state_file
             ELSE IF fault = "save_dump" THEN [u \in Uuids |-> None]
             ELSE run_new_state
        /\ last_run_file' = IF aborted THEN last_run_file ELSE Some(summary)
        /\ gained'  = IF dry_run \/ aborted THEN gained ELSE FALSE
        /\ faulted' = (faulted \/ fault # "ok")
        /\ UNCHANGED <<jsonl, exclude, now, server_vars>>

\* The producer of a session appends one line to its file.
AppendMsg(uuid, msg) ==
    /\ Len(jsonl[uuid]) < MaxMsgs
    /\ jsonl'   = [jsonl EXCEPT ![uuid] = Append(@, msg)]
    /\ emitted' = [emitted EXCEPT ![uuid] = Append(@, 0)]
    /\ gained'  = TRUE
    /\ UNCHANGED <<state_file, exclude, last_run_file, faulted, store_vars, now, server_vars>>

\* ---- server.py: event store ----------------------------------------------
\* Task labels of the model. parse_tags and the anonymous-label pattern are
\* given on these labels.
AnonLabels == {"Session 0123abcd"}
TaskNames  == {"build [ops]", "deploy [web]"} \cup AnonLabels

\* parse_tags: the [tag] patterns of a task name.
parse_tags(task_name) ==
    CASE task_name = "build [ops]"  -> <<"ops">>
      [] task_name = "deploy [web]" -> <<"web">>
      [] OTHER                      -> <<>>

\* _SESSION_RE.match(task)
IsAnon(task) == task \in AnonLabels

\* _load_spawn_labels(): sessions.json, session uuid -> spawn label
spawn_labels == [u \in {"s2"} |-> "rename-fix"]

Str(n) == ToString(n)

\* hashlib.md5(raw).hexdigest()[:12], taken to be free of collisions
Md5(raw) == "md5:" \o raw

\* event_id(ev)
event_id(ev) == Md5(Str(ev.ts) \o ev.task \o Str(ev.cost_usd))

\* The id also hashes the session of the event.
load_stable_id_session(ev) == Md5(Str(ev.ts) \o ev.task \o Str(ev.cost_usd) \o ev.session)

\* load_events: the id attached to a parsed line that has none
load_stable_id(ev) == Md5(Str(ev.ts) \o ev.task \o Str(ev.cost_usd))

\* _MODEL_SHORT lookup of _enrich_session_labels
model_short(model) ==
    CASE model = "claude-sonnet-4-6" -> "Sonnet"
      [] model = "claude-opus-4"     -> "Opus"
      [] model = "claude-haiku-3"    -> "Haiku"
      [] OTHER                       -> "AI"

SECONDS_PER_HOUR == 3600

\* f"{model_short} . {month} {day} {hour:02d}:00": the label names the model
\* and the hour of the timestamp
smart_label(model, ts) == model_short(model) \o " · h" \o Str(ts \div SECONDS_PER_HOUR)

\* min(events, key=ts): the first event with the least ts
first_min_ts(evs) ==
    LET i == CHOOSE i \in 1..Len(evs) :
                 /\ \A j \in 1..Len(evs) : evs[i].ts <= evs[j].ts
                 /\ \A j \in 1..(i - 1) : evs[j].ts > evs[i].ts
    IN  evs[i]

\* _enrich_session_labels(events): the relabelled events and the label cache
enrich_session_labels(events, label_cache) ==
    LET pass1 == [i \in 1..Len(events) |->
                    IF events[i].session # "" /\ events[i].session \in DOMAIN spawn_labels
                    THEN [events[i] EXCEPT !.task = spawn_labels[events[i].session]]
                    ELSE events[i]]
        anon  == {pass1[i].task : i \in {j \in 1..Len(pass1) : IsAnon(pass1[j].task)}}
        group(label) == SelectSeq(pass1, LAMBDA e : e.task = label)
        new_label(label) ==
            IF label_cache[label] # None THEN label_cache[label][1]
            ELSE LET first_ev == first_min_ts(group(label))
                 IN  IF first_ev.ts # 0 THEN smart_label(first_ev.model, first_ev.ts)
                     ELSE label
    IN  [events |-> [i \in 1..Len(pass1) |->
                        IF pass1[i].task \in anon
                        THEN [pass1[i] EXCEPT !.task = new_label(pass1[i].task)]
                        ELSE pass1[i]],
         label_cache |-> [l \in AnonLabels |->
                            IF l \in anon /\ label_cache[l] = None
                            THEN Some(new_label(l)) ELSE label_cache[l]]]

\* demo-data.jsonl, the bundled demo dataset
DEMO_FILE == <<Event(1, "Demo task", 1, "demo", DEFAULT_MODEL, None)>>

\* The files and globals load_events works on, as records.
File    == [lines |-> events_file, exists |-> events_exists, mtime |-> file_mtime]
Globals == [cache |-> _events_cache, mtime |-> _events_mtime, demo |-> _events_demo_mode,
            malformed |-> _malformed_count, labels |-> _SESSION_LABEL_CACHE]

\* The parse loop of load_events: JSON objects, each with an id.
parsed_events(lines) ==
    LET objs == SelectSeq(lines, LAMBDA l : l.kind = "obj")
    IN  [i \in 1..Len(objs) |->
            IF objs[i].ev.id = None
            THEN [objs[i].ev EXCEPT !.id = Some(load_stable_id(objs[i].ev))]
            ELSE objs[i].ev]

count_bad(lines) == Len(SelectSeq(lines, LAMBDA l : l.kind = "bad"))

\* A line that json.loads accepts but that is no object makes the loop body
\* raise TypeError or AttributeError, which load_events does not catch.
load_raises(lines) == \E i \in 1..Len(lines) : lines[i].kind = "scalar"

\* load_events(force) on file F with globals G: whether it raised, what it
\* returned and the globals afterwards.
load_events(F, G, force) ==
    LET mtime == IF F.exists THEN F.mtime ELSE 0
        lines == IF F.exists THEN F.lines ELSE <<>>
    IN  IF ~force /\ G.cache # None /\ mtime = G.mtime
        THEN [raised |-> FALSE, events |-> G.cache[1], demo_mode |-> G.demo, G |-> G]
        ELSE IF load_raises(lines)
        THEN [raised |-> TRUE, events |-> <<>>, demo_mode |-> FALSE, G |-> G]
        ELSE LET bad_lines == count_bad(lines)
                 parsed    == parsed_events(lines)
                 demo_mode == parsed = <<>>
                 en        == enrich_session_labels(parsed, G.labels)
                 events    == IF demo_mode THEN DEMO_FILE ELSE en.events
             IN  [raised |-> FALSE, events |-> events, demo_mode |-> demo_mode,
                  G |-> [cache     |-> Some(events),
                         mtime     |-> mtime,
                         demo      |-> demo_mode,
                         malformed |-> IF bad_lines > 0 THEN bad_lines ELSE G.malformed,
                         labels    |-> IF demo_mode THEN G.labels ELSE en.label_cache]]

\* Store the globals record back into the variables.
SetGlobals(G) ==
    /\ _events_cache' = G.cache
    /\ _events_mtime' = G.mtime
    /\ _events_demo_mode' = G.demo
    /\ _malformed_count' = G.malformed
    /\ _SESSION_LABEL_CACHE' = G.labels

\* GET /api/health: load_events() and report the count and malformed_lines.
ApiHealth ==
    LET r == load_events(File, Globals, FALSE)
    IN  /\ SetGlobals(r.G)
        /\ resp' = [op |-> "health", status |-> IF r.raised THEN 500 ELSE 200]
        /\ UNCHANGED <<logger_vars, store_vars, now, _state_cache, _state_cache_ts,
                       archive_file, backup>>

\* Events other producers write (log_cost_event.py, the adapters).
InputEvents ==
    {Event(1, "build [ops]", 1, "s1", DEFAULT_MODEL, None),
     Event(1, "build [ops]", 1, "s2", DEFAULT_MODEL, None),
     Event(2, "build [ops]", 1, "s1", DEFAULT_MODEL, None),
     Event(2, "Session 0123abcd", 1, "s1", DEFAULT_MODEL, None)}

InputLines == {ObjLine(e) : e \in InputEvents} \cup {BadLine, ScalarLine}

\* Another process appends one line to the events file.
ExternalAppend(line) ==
    /\ Len(events_file) < MaxLines
    /\ events_file' = Append(events_file, line)
    /\ events_exists' = TRUE
    /\ file_mtime' = now
    /\ resp' = [op |-> "append"]
    /\ UNCHANGED <<logger_vars, now, cache_vars, _state_cache, _state_cache_ts,
                   archive_file, backup>>

\* The wall clock advances by one tick.
Tick ==
    /\ now < MaxClock
    /\ now' = now + 1
    /\ UNCHANGED <<logger_vars, store_vars, server_vars>>


\* ---- server.py: snapshot ---------------------------------------------------
MaxBatch == 2   \* lines in one import body

\* build_state reuses a snapshot younger than 1.0 second
STATE_TTL_SEC == 1

Tags == {"ops", "web"}

InSeq(x, seq) == \E i \in 1..Len(seq) : seq[i] = x

\* sorted(events, key=ts, reverse=True): stable, descending by ts
RECURSIVE insert_desc(_, _)
insert_desc(sorted, e) ==
    IF sorted = <<>> THEN <<e>>
    ELSE IF Head(sorted).ts >= e.ts THEN <<Head(sorted)>> \o insert_desc(Tail(sorted), e)
    ELSE <<e>> \o sorted

RECURSIVE sorted_desc(_)
sorted_desc(evs) ==
    IF evs = <<>> THEN <<>>
    ELSE insert_desc(sorted_desc(SubSeq(evs, 1, Len(evs) - 1)), evs[Len(evs)])

\* One row of recent_tasks.
recent_row(e) ==
    [ts |-> e.ts, id |-> IF e.id = None THEN event_id(e) ELSE e.id[1], task |-> e.task,
     cost |-> e.cost_usd, session |-> e.session, tags |-> parse_tags(e.task)]

\* CONFIG_DEFAULTS["max_events_display"]
max_events_display == 50

Take(seq, n) == SubSeq(seq, 1, IF Len(seq) < n THEN Len(seq) ELSE n)

\* tags_summary: cost per tag over the tags that occur in the events
tags_summary(events) ==
    LET occurs == {t \in Tags : \E i \in 1..Len(events) : InSeq(t, parse_tags(events[i].task))}
    IN  [t \in occurs |->
            SumCost(SelectSeq(events, LAMBDA e : InSeq(t, parse_tags(e.task))))]

\* The fields of the snapshot that _build_state_inner derives from events.
snapshot(events, demo_mode, malformed, clock) ==
    LET recent == Take(sorted_desc(events), max_events_display)
    IN  [ts              |-> clock \div TicksPerSec,
         demo_mode       |-> demo_mode,
         recent          |-> [i \in 1..Len(recent) |-> recent_row(recent[i])],
         tags_summary    |-> tags_summary(events),
         total_events    |-> Len(events),
         malformed_lines |-> malformed]

\* _build_state_inner() once load_events() has returned r: the snapshot of
\* what it returned.
inner_result(r, clock) ==
    [raised |-> r.raised, G |-> r.G,
     data   |-> snapshot(r.events, r.demo_mode, r.G.malformed, clock)]

\* _build_state_inner(): load_events() and the snapshot of what it returned.
build_state_inner(F, G, clock) == inner_result(load_events(F, G, FALSE), clock)

\* build_state() past the TTL test: the result of _build_state_inner() is
\* returned and becomes the cached snapshot.
store_result(result, G, cache, cache_ts, clock) ==
    IF result.raised
    THEN [raised |-> TRUE, data |-> result.data, G |-> G,
          cache |-> cache, cache_ts |-> cache_ts]
    ELSE [raised |-> FALSE, data |-> result.data, G |-> result.G,
          cache |-> Some(result.data), cache_ts |-> clock]

\* build_state() at time clock with snapshot cache (cache, cache_ts).
build_state(F, G, cache, cache_ts, clock) ==
    IF cache # None /\ (clock - cache_ts) < STATE_TTL_SEC * TicksPerSec
    THEN [raised |-> FALSE, data |-> cache[1], G |-> G, cache |-> cache, cache_ts |-> cache_ts]
    ELSE store_result(build_state_inner(F, G, clock), G, cache, cache_ts, clock)

\* data["recent"] = [e for e in data["recent"] if tag_filter in e["tags"]]
filter_recent(data, tag) ==
    [data EXCEPT !.recent = SelectSeq(data.recent, LAMBDA e : InSeq(tag, e.tags))]

\* The /api/data handler once build_state() has returned r: tag_filter is
\* None or Some(T). The handler assigns the filtered list into the object
\* build_state returned, which is the cached object.
serve_data(r, tag_filter) ==
    LET data == IF tag_filter # None THEN filter_recent(r.data, tag_filter[1]) ELSE r.data
    IN  /\ SetGlobals(r.G)
        /\ _state_cache_ts' = r.cache_ts
        /\ _state_cache' = IF r.raised THEN r.cache ELSE Some(data)
        /\ resp' = IF r.raised THEN [op |-> "data", status |-> 500]
                   ELSE [op |-> "data", status |-> 200, tag |-> tag_filter]
        /\ UNCHANGED <<logger_vars, store_vars, now, archive_file, backup>>

\* GET /api/data[?tag=T]
ApiData(tag_filter) ==
    serve_data(build_state(File, Globals, _state_cache, _state_cache_ts, now), tag_filter)

\* ---- server.py: bulk import --------------------------------------------------
\* A JSON object that lacks one of the required fields ts, task, cost_usd.
MissingLine == [kind |-> "missing", ev |-> NullEvent]

ImportLines == {ObjLine(e) : e \in InputEvents} \cup {BadLine, ScalarLine, MissingLine}

Bodies == UNION {[1..n -> ImportLines] : n \in 1..MaxBatch}

\* The loop of _import_events over the lines of the body.
RECURSIVE import_lines(_, _, _)
import_lines(lines, i, acc) ==
    IF i > Len(lines) THEN acc
    ELSE LET line == lines[i]
             eid  == event_id(line.ev)
         IN  import_lines(lines, i + 1,
               IF line.kind # "obj" THEN [acc EXCEPT !.bad = @ + 1]
               ELSE IF eid \in acc.existing_ids THEN [acc EXCEPT !.dupes = @ + 1]
               ELSE [acc EXCEPT !.existing_ids = @ \cup {eid},
                                !.new_events = Append(@, [line.ev EXCEPT !.id = Some(eid)])])

\* server.py write_events_locked(new_lines) on file F at time clock
write_events_locked(F, new_lines, clock) ==
    [lines  |-> (IF F.exists THEN F.lines ELSE <<>>)
                   \o [k \in 1..Len(new_lines) |-> ObjLine(new_lines[k])],
     exists |-> TRUE, mtime |-> clock]

SetFile(F) ==
    /\ events_file' = F.lines
    /\ events_exists' = F.exists
    /\ file_mtime' = F.mtime

\* _import_events after its load_events() returned r1: the loop over the body.
import_scan(r1, body) ==
    import_lines(body, 1,
        [existing_ids |-> {event_id(r1.events[i]) : i \in 1..Len(r1.events)},
         new_events |-> <<>>, bad |-> 0, dupes |-> 0])

\* _import_events after the loop: the append and the forced reload.
import_commit(r1, acc) ==
    LET F2 == write_events_locked(File, acc.new_events, now)
    IN  [r1 |-> r1, acc |-> acc, F2 |-> F2, r2 |-> load_events(F2, r1.G, TRUE)]

import_loaded(r1, body) == import_commit(r1, import_scan(r1, body))

\* What _import_events computes from the current state for a body.
import_events(body) == import_loaded(load_events(File, Globals, FALSE), body)

\* The effect and the reply of _import_events, c being what it computed.
import_reply(c, body) ==
    /\ Len(events_file) + Len(c.acc.new_events) <= MaxLines
    /\ IF c.r1.raised
       THEN /\ resp' = [op |-> "import", status |-> 500, body |-> body]
            /\ UNCHANGED <<store_vars, cache_vars, _state_cache>>
       ELSE IF c.acc.new_events = <<>>
       THEN /\ resp' = [op |-> "import", status |-> 200, body |-> body, imported |-> 0,
                        skipped_malformed |-> c.acc.bad, skipped_dupes |-> c.acc.dupes]
            /\ SetGlobals(c.r1.G)
            /\ UNCHANGED <<store_vars, _state_cache>>
       ELSE /\ SetFile(c.F2)
            /\ SetGlobals(c.r2.G)
            /\ _state_cache' = IF c.r2.raised THEN _state_cache ELSE None
            /\ resp' = IF c.r2.raised THEN [op |-> "import", status |-> 500, body |-> body]
                       ELSE [op |-> "import", status |-> 200, body |-> body,
                             imported |-> Len(c.acc.new_events),
                             skipped_malformed |-> c.acc.bad,
                             skipped_dupes |-> c.acc.dupes]
    /\ UNCHANGED <<logger_vars, now, _state_cache_ts, archive_file, backup>>

\* POST /api/import
Import(body) == import_reply(import_events(body), body)


\* ---- server.py: maintenance rewrites ----------------------------------------
\* The read loop of do_PATCH: the JSON objects of the file as stored;
\* unparseable lines are dropped.
patch_read(lines) ==
    LET objs == SelectSeq(lines, LAMBDA l : l.kind = "obj") IN [i \in 1..Len(objs) |-> objs[i].ev]

\* The rewrite writes the events last to first.
RewriteFile_reversed(evs, clock) ==
    [lines |-> [k \in 1..Len(evs) |-> ObjLine(evs[Len(evs) + 1 - k])], exists |-> TRUE,
     mtime |-> clock]

\* open(EVENTS_FILE, "w") and one line per event, in the order of the list.
RewriteFile(evs, clock) ==
    [lines |-> [k \in 1..Len(evs) |-> ObjLine(evs[k])], exists |-> TRUE, mtime |-> clock]

\* PATCH /api/tasks/rename {old, new}: bulk rename under the write lock, then
\* load_events(force=True). A non-object line makes ev.get raise inside the
\* handler, before anything is written.
RenameTask(old_name, new_name) ==
    /\ IF ~events_exists
       THEN /\ resp' = [op |-> "rename_task", status |-> 404]
            /\ UNCHANGED <<store_vars, cache_vars>>
       ELSE IF load_raises(events_file)
       THEN /\ resp' = [op |-> "rename_task", status |-> 500]
            /\ UNCHANGED <<store_vars, cache_vars>>
       ELSE LET evs   == patch_read(events_file)
                lines == [i \in 1..Len(evs) |->
                            IF evs[i].task = old_name
                            THEN [evs[i] EXCEPT !.task = new_name] ELSE evs[i]]
                F2    == RewriteFile(lines, now)
                r     == load_events(F2, Globals, TRUE)
            IN  /\ SetFile(F2)
                /\ SetGlobals(r.G)
                /\ resp' = [op |-> "rename_task", status |-> 200,
                            renamed |-> Len(SelectSeq(evs, LAMBDA e : e.task = old_name))]
    /\ UNCHANGED <<logger_vars, now, _state_cache, _state_cache_ts, archive_file, backup>>

\* PATCH /api/events/<hash>/rename {task}: single rename.
RenameEvent(ev_id, new_name) ==
    /\ IF ~events_exists
       THEN /\ resp' = [op |-> "rename_event", status |-> 404]
            /\ UNCHANGED <<store_vars, cache_vars>>
       ELSE IF load_raises(events_file)
       THEN /\ resp' = [op |-> "rename_event", status |-> 500]
            /\ UNCHANGED <<store_vars, cache_vars>>
       ELSE LET evs   == patch_read(events_file)
                hit(e) == event_id(e) = ev_id \/ e.id = Some(ev_id)
                lines == [i \in 1..Len(evs) |->
                            IF hit(evs[i]) THEN [evs[i] EXCEPT !.task = new_name] ELSE evs[i]]
                F2    == RewriteFile(lines, now)
                r     == load_events(F2, Globals, TRUE)
            IN  IF \E i \in 1..Len(evs) : hit(evs[i])
                THEN /\ SetFile(F2)
                     /\ SetGlobals(r.G)
                     /\ resp' = [op |-> "rename_event", status |-> 200]
                ELSE /\ resp' = [op |-> "rename_event", status |-> 404]
                     /\ UNCHANGED <<store_vars, cache_vars>>
    /\ UNCHANGED <<logger_vars, now, _state_cache, _state_cache_ts, archive_file, backup>>

\* GET /api/archive: _do_archive(cutoff_ts), then load_events(force=True).
Archive(cutoff_ts) ==
    LET r1      == load_events(File, Globals, TRUE)
        keep    == SelectSeq(r1.events, LAMBDA e : e.ts >= cutoff_ts)
        archive == SelectSeq(r1.events, LAMBDA e : e.ts < cutoff_ts)
        F2      == RewriteFile(keep, now)
        r2      == load_events(F2, r1.G, TRUE)
    IN  /\ IF ~events_exists
           THEN LET r0 == load_events(File, Globals, TRUE)
                IN  /\ SetGlobals(r0.G)
                    /\ resp' = [op |-> "archive", status |-> 200, moved |-> 0]
                    /\ UNCHANGED <<store_vars, archive_file>>
           ELSE IF r1.raised
           THEN /\ resp' = [op |-> "archive", status |-> 500]
                /\ UNCHANGED <<store_vars, cache_vars, archive_file>>
           ELSE IF archive = <<>>
           THEN /\ SetGlobals(r1.G)
                /\ resp' = [op |-> "archive", status |-> 200, moved |-> 0]
                /\ UNCHANGED <<store_vars, archive_file>>
           ELSE /\ archive_file' = archive_file \o archive
                /\ SetFile(F2)
                /\ SetGlobals(r2.G)
                /\ resp' = [op |-> "archive", status |-> 200, moved |-> Len(archive)]
        /\ Len(archive_file') <= MaxLines
        /\ UNCHANGED <<logger_vars, now, _state_cache, _state_cache_ts, backup>>

\* DELETE /api/clear with token CONFIRM: back up, remove the file,
\* load_events(force=True), drop the snapshot.
Clear ==
    LET F2 == [lines |-> <<>>, exists |-> FALSE, mtime |-> 0]
        r  == load_events(F2, Globals, TRUE)
    IN  /\ backup' = IF events_exists THEN Some(File) ELSE backup
        /\ SetFile(F2)
        /\ SetGlobals(r.G)
        /\ _state_cache' = None
        /\ resp' = [op |-> "clear", status |-> 200]
        /\ UNCHANGED <<logger_vars, now, _state_cache_ts, archive_file>>

\* POST /api/restore {file}: shutil.copy2 of the backup over the events file
\* (content and modification time), then load_events(force=True).
Restore ==
    IF backup = None
    THEN /\ resp' = [op |-> "restore", status |-> 404]
         /\ UNCHANGED <<logger_vars, store_vars, now, cache_vars, _state_cache,
                        _state_cache_ts, archive_file, backup>>
    ELSE LET F2 == backup[1]
             r  == load_events(F2, Globals, TRUE)
         IN  /\ SetFile(F2)
             /\ SetGlobals(r.G)
             /\ resp' = [op |-> "restore", status |-> IF r.raised THEN 500 ELSE 200]
             /\ UNCHANGED <<logger_vars, now, _state_cache, _state_cache_ts,
                            archive_file, backup>>


\* ---- writers of the events file, step by step -------------------------------
\* The three appenders: auto_logger.py (under flock on the file),
\* log_cost_event.py (no lock) and the server (under _events_write_lock).
Writers == {"auto_logger", "log_cost_event", "server"}

WriterEvent(ts) == Event(ts, "build [ops]", 1, "s1", DEFAULT_MODEL, None)

\* One writer appends one event with a fresh timestamp. Only the server's
\* append waits for _events_write_lock; flock is taken by auto_logger alone.
WriterAppend(w) ==
    LET e == WriterEvent(Cardinality(appended) + 1)
    IN  /\ Cardinality(appended) < MaxLines
        /\ Len(events_file) < MaxLines
        /\ w = "server" => _events_write_lock = ""
        /\ logger_write_events(<<e>>)
        /\ appended' = appended \cup {e.ts}
        /\ resp' = [op |-> "append", writer |-> w]
        /\ UNCHANGED <<logger_vars, now, cache_vars, _state_cache, _state_cache_ts,
                       archive_file, backup, _events_write_lock, m_pc, m_op, m_lines,
                       m_archive>>

RenameOps == {"rename_task", "rename_event"}
MaintOps  == RenameOps \cup {"archive", "clear", "restore"}

ARCHIVE_CUTOFF == 2
RENAME_OLD == "build [ops]"
RENAME_NEW == "deploy [web]"

\* The events a rename handler writes back, from the events it read.
renamed_lines(op, evs) ==
    LET hit(e) == IF op = "rename_task" THEN e.task = RENAME_OLD
                  ELSE event_id(e) = event_id(WriterEvent(1))
                          \/ e.id = Some(event_id(WriterEvent(1)))
    IN  [found |-> \E i \in 1..Len(evs) : hit(evs[i]),
         lines |-> [i \in 1..Len(evs) |->
                      IF hit(evs[i]) THEN [evs[i] EXCEPT !.task = RENAME_NEW] ELSE evs[i]]]

\* A maintenance request arrives.
MaintBegin(op) ==
    /\ m_pc = "idle"
    /\ m_op' = op
    /\ m_pc' = CASE op \in RenameOps -> "acquire"
                 [] op = "archive"   -> "load"
                 [] op = "clear"     -> "remove"
                 [] op = "restore"   -> "copy"
    /\ resp' = [op |-> op, step |-> "begin"]
    /\ UNCHANGED <<logger_vars, store_vars, now, cache_vars, _state_cache, _state_cache_ts,
                   archive_file, backup, _events_write_lock, m_lines, m_archive, appended>>

\* _do_archive before the lock: load_events(force=True), keep and archive.
MaintLoad ==
    LET r1      == load_events(File, Globals, TRUE)
        keep    == SelectSeq(r1.events, LAMBDA e : e.ts >= ARCHIVE_CUTOFF)
        archive == SelectSeq(r1.events, LAMBDA e : e.ts < ARCHIVE_CUTOFF)
    IN  /\ m_pc = "load"
        /\ IF ~events_exists
           THEN /\ m_pc' = "reload"
                /\ UNCHANGED <<cache_vars, m_lines, m_archive>>
           ELSE /\ SetGlobals(r1.G)
                /\ m_lines' = keep
                /\ m_archive' = archive
                /\ m_pc' = IF archive = <<>> THEN "reload" ELSE "acquire"
        /\ resp' = [op |-> m_op, step |-> "load"]
        /\ UNCHANGED <<logger_vars, store_vars, now, _state_cache, _state_cache_ts,
                       archive_file, backup, _events_write_lock, m_op, appended>>

\* with _events_write_lock:
MaintAcquire ==
    /\ m_pc = "acquire"
    /\ _events_write_lock = ""
    /\ _events_write_lock' = "maint"
    /\ m_pc' = IF m_op = "archive" THEN "write" ELSE "read"
    /\ resp' = [op |-> m_op, step |-> "acquire"]
    /\ UNCHANGED <<logger_vars, store_vars, now, cache_vars, _state_cache, _state_cache_ts,
                   archive_file, backup, m_op, m_lines, m_archive, appended>>

\* The read loop of a rename handler; a missing file or an event that is not
\* found ends the request with 404 and leaves the with block.
MaintRead ==
    LET rn == renamed_lines(m_op, patch_read(events_file))
    IN  /\ m_pc = "read"
        /\ IF ~events_exists \/ (m_op = "rename_event" /\ ~rn.found)
           THEN /\ _events_write_lock' = ""
                /\ m_pc' = "idle"
                /\ resp' = [op |-> m_op, step |-> "read", status |-> 404]
                /\ UNCHANGED m_lines
           ELSE /\ m_lines' = rn.lines
                /\ m_pc' = "write"
                /\ resp' = [op |-> m_op, step |-> "read"]
                /\ UNCHANGED _events_write_lock
        /\ UNCHANGED <<logger_vars, store_vars, now, cache_vars, _state_cache, _state_cache_ts,
                       archive_file, backup, m_op, m_archive, appended>>

\* open(EVENTS_FILE, "w") and the write loop; _do_archive appends to the
\* archive file first.
MaintWrite ==
    /\ m_pc = "write"
    /\ SetFile(RewriteFile(m_lines, now))
    /\ archive_file' = IF m_op = "archive" THEN archive_file \o m_archive ELSE archive_file
    /\ Len(archive_file') <= MaxLines
    /\ m_pc' = "release"
    /\ resp' = [op |-> m_op, step |-> "write"]
    /\ UNCHANGED <<logger_vars, now, cache_vars, _state_cache, _state_cache_ts, backup,
                   _events_write_lock, m_op, m_lines, m_archive, appended>>

\* The with block ends.
MaintRelease ==
    /\ m_pc = "release"
    /\ _events_write_lock' = ""
    /\ m_pc' = "reload"
    /\ resp' = [op |-> m_op, step |-> "release"]
    /\ UNCHANGED <<logger_vars, store_vars, now, cache_vars, _state_cache, _state_cache_ts,
                   archive_file, backup, m_op, m_lines, m_archive, appended>>

\* DELETE /api/clear: _do_backup and os.remove, outside any with block.
MaintRemove ==
    /\ m_pc = "remove"
    /\ backup' = IF events_exists THEN Some(File) ELSE backup
    /\ SetFile([lines |-> <<>>, exists |-> FALSE, mtime |-> 0])
    /\ m_pc' = "reload"
    /\ resp' = [op |-> m_op, step |-> "remove"]
    /\ UNCHANGED <<logger_vars, now, cache_vars, _state_cache, _state_cache_ts, archive_file,
                   _events_write_lock, m_op, m_lines, m_archive, appended>>

\* POST /api/restore: shutil.copy2(src, EVENTS_FILE), outside any with block.
MaintCopy ==
    /\ m_pc = "copy"
    /\ IF backup = None
       THEN /\ m_pc' = "idle"
            /\ resp' = [op |-> m_op, step |-> "copy", status |-> 404]
            /\ UNCHANGED store_vars
       ELSE /\ SetFile(backup[1])
            /\ m_pc' = "reload"
            /\ resp' = [op |-> m_op, step |-> "copy"]
    /\ UNCHANGED <<logger_vars, now, cache_vars, _state_cache, _state_cache_ts, archive_file,
                   backup, _events_write_lock, m_op, m_lines, m_archive, appended>>

\* load_events(force=True) at the end of every maintenance handler; clear
\* drops the snapshot as well.
MaintReload ==
    LET r == load_events(File, Globals, TRUE)
    IN  /\ m_pc = "reload"
        /\ SetGlobals(r.G)
        /\ _state_cache' = IF m_op = "clear" THEN None ELSE _state_cache
        /\ m_pc' = "idle"
        /\ resp' = [op |-> m_op, step |-> "done", status |-> IF r.raised THEN 500 ELSE 200]
        /\ UNCHANGED <<logger_vars, store_vars, now, _state_cache_ts, archive_file, backup,
                       _events_write_lock, m_op, m_lines, m_archive, appended>>

\* ---- server.py: SSE subscribers and broadcaster -----------------------------
MaxTicks == 2   \* broadcaster ticks

Subs == {"c1", "c2"}

\* queue.Queue() is built without maxsize: 0, which stands for no limit.
QUEUE_MAXSIZE == 0

\* q.put_nowait(msg): raises queue.Full on a full queue.
put_nowait(queue, msg) ==
    IF QUEUE_MAXSIZE > 0 /\ Len(queue) >= QUEUE_MAXSIZE
    THEN [full |-> TRUE, queue |-> queue]
    ELSE [full |-> FALSE, queue |-> Append(queue, msg)]

\* q.get(): the oldest message and the rest of the queue.
queue_lifo(queue) == [msg |-> queue[Len(queue)], rest |-> SubSeq(queue, 1, Len(queue) - 1)]

queue_get(queue) == [msg |-> Head(queue), rest |-> Tail(queue)]

\* The broadcaster's loops over _sse_clients: clients whose put raised.
dead_clients(clients, queues, msg) ==
    {clients[i] : i \in {j \in 1..Len(clients) : put_nowait(queues[clients[j]], msg).full}}

\* Only subscribers whose queue is empty get the message.
enqueue_idle(clients, queues, msg) ==
    [s \in Subs |-> IF InSeq(s, clients) /\ queues[s] = <<>>
                    THEN put_nowait(queues[s], msg).queue ELSE queues[s]]

enqueue_all(clients, queues, msg) ==
    [s \in Subs |-> IF InSeq(s, clients) THEN put_nowait(queues[s], msg).queue ELSE queues[s]]

\* The list is returned as it is.
keep_client(clients, s) == clients

\* _sse_clients.remove(q), guarded by "if q in _sse_clients"
remove_client(clients, s) == SelectSeq(clients, LAMBDA x : x # s)

InitialMsg(n) == [kind |-> "initial", n |-> n]
TickMsg(n)    == [kind |-> "tick", n |-> n]

\* GET /api/stream: headers sent, q created and appended to _sse_clients.
Subscribe(s) ==
    /\ h_pc[s] = "idle"
    /\ h_pc' = [h_pc EXCEPT ![s] = "registered"]
    /\ conn' = [conn EXCEPT ![s] = "open"]
    /\ sse_queue' = [sse_queue EXCEPT ![s] = <<>>]
    /\ _sse_clients' = Append(_sse_clients, s)
    /\ UNCHANGED <<h_msg, delivered, enqueued, bc_pc, bc_msg, ticks>>

\* The client stops reading, reads again, or goes away.
ConnChange(s, c) ==
    /\ h_pc[s] \notin {"idle", "done"}
    /\ conn[s] # "broken"
    /\ c # conn[s]
    /\ conn' = [conn EXCEPT ![s] = c]
    /\ UNCHANGED <<_sse_clients, sse_queue, h_pc, h_msg, delivered, enqueued,
                   bc_pc, bc_msg, ticks>>

\* build_state() and the write of the first message. ok = FALSE: build_state
\* raises; a broken connection makes the write raise. Both leave through the
\* finally block. A stalled connection blocks the write.
InitialWrite(s, ok) ==
    /\ h_pc[s] = "registered"
    /\ ok => conn[s] # "stalled"
    /\ IF ok /\ conn[s] = "open"
       THEN /\ delivered' = [delivered EXCEPT ![s] = Append(@, InitialMsg(ticks))]
            /\ h_pc' = [h_pc EXCEPT ![s] = "loop"]
       ELSE /\ h_pc' = [h_pc EXCEPT ![s] = "finally"]
            /\ UNCHANGED delivered
    /\ UNCHANGED <<_sse_clients, sse_queue, h_msg, conn, enqueued, bc_pc, bc_msg, ticks>>

\* msg = q.get(timeout=30) returns a message.
QueueGet(s) ==
    /\ h_pc[s] = "loop"
    /\ sse_queue[s] # <<>>
    /\ h_msg' = [h_msg EXCEPT ![s] = Some(queue_get(sse_queue[s]).msg)]
    /\ sse_queue' = [sse_queue EXCEPT ![s] = queue_get(sse_queue[s]).rest]
    /\ h_pc' = [h_pc EXCEPT ![s] = "writing"]
    /\ UNCHANGED <<_sse_clients, conn, delivered, enqueued, bc_pc, bc_msg, ticks>>

\* The write of a tick message. On a broken connection it raises, the
\* heartbeat write of the except clause raises as well and the handler leaves
\* through the finally block.
MessageWrite(s) ==
    /\ h_pc[s] = "writing"
    /\ conn[s] # "stalled"
    /\ IF conn[s] = "open"
       THEN /\ delivered' = [delivered EXCEPT ![s] = Append(@, h_msg[s][1])]
            /\ h_pc' = [h_pc EXCEPT ![s] = "loop"]
       ELSE /\ h_pc' = [h_pc EXCEPT ![s] = "finally"]
            /\ UNCHANGED delivered
    /\ h_msg' = [h_msg EXCEPT ![s] = None]
    /\ UNCHANGED <<_sse_clients, sse_queue, conn, enqueued, bc_pc, bc_msg, ticks>>

\* q.get times out on an empty queue and the heartbeat write finds the
\* connection broken. (On an open connection the heartbeat changes nothing.)
Heartbeat(s) ==
    /\ h_pc[s] = "loop"
    /\ sse_queue[s] = <<>>
    /\ conn[s] = "broken"
    /\ h_pc' = [h_pc EXCEPT ![s] = "finally"]
    /\ UNCHANGED <<_sse_clients, sse_queue, h_msg, conn, delivered, enqueued,
                   bc_pc, bc_msg, ticks>>

\* finally: with _sse_lock: if q in _sse_clients: _sse_clients.remove(q)
HandlerFinally(s) ==
    /\ h_pc[s] = "finally"
    /\ _sse_clients' = remove_client(_sse_clients, s)
    /\ h_pc' = [h_pc EXCEPT ![s] = "done"]
    /\ UNCHANGED <<sse_queue, h_msg, conn, delivered, enqueued, bc_pc, bc_msg, ticks>>

\* sse_broadcaster wakes up with subscribers present and calls build_state();
\* ok = FALSE: it raises and the tick is logged and given up.
BroadcastBuild(ok) ==
    /\ bc_pc = "sleep"
    /\ _sse_clients # <<>>
    /\ ticks < MaxTicks
    /\ ticks' = ticks + 1
    /\ bc_pc' = IF ok THEN "enqueue" ELSE "sleep"
    /\ bc_msg' = IF ok THEN Some(TickMsg(ticks + 1)) ELSE None
    /\ UNCHANGED <<_sse_clients, sse_queue, h_pc, h_msg, conn, delivered, enqueued>>

\* with _sse_lock: put_nowait to every client, then remove the dead ones.
BroadcastEnqueue ==
    LET dead == dead_clients(_sse_clients, sse_queue, bc_msg[1])
    IN  /\ bc_pc = "enqueue"
        /\ sse_queue' = enqueue_all(_sse_clients, sse_queue, bc_msg[1])
        /\ enqueued' = [s \in Subs |->
                          IF InSeq(s, _sse_clients) /\ s \notin dead
                          THEN Append(enqueued[s], bc_msg[1]) ELSE enqueued[s]]
        /\ _sse_clients' = SelectSeq(_sse_clients, LAMBDA x : x \notin dead)
        /\ bc_pc' = "sleep"
        /\ bc_msg' = None
        /\ UNCHANGED <<h_pc, h_msg, conn, delivered, ticks>>

\* ---- server.py: cost figures of the snapshot --------------------------------
MaxKpiEvents == 2   \* events in the store when the cost figures are computed

SECONDS_PER_DAY == 86400

\* Calendar of the model: days are counted from the epoch and a month has
\* DAYS_PER_MONTH days; date.fromtimestamp(ts).isoformat() is the day number.
DAYS_PER_MONTH == 30
iso_day(ts)    == ts \div SECONDS_PER_DAY
iso_month(day) == day \div DAYS_PER_MONTH

\* sum(...) over the values of a function
RECURSIVE SumFn(_)
SumFn(f) ==
    IF DOMAIN f = {} THEN 0
    ELSE LET x == CHOOSE y \in DOMAIN f : TRUE
         IN  f[x] + SumFn([y \in DOMAIN f \ {x} |-> f[y]])

\* The record of the day is used only when its cost is not zero.
gt_unless_zero(gt_daily, day, tracked) ==
    IF day \in DOMAIN gt_daily /\ gt_daily[day] # 0 THEN gt_daily[day] ELSE tracked

\* if iso in _gt_daily_early: _gt_daily_early[iso].get("cost_usd", tracked)
gt_or_tracked(gt_daily, day, tracked) ==
    IF day \in DOMAIN gt_daily THEN gt_daily[day] ELSE tracked

\* a or b on numbers
Or(a, b) == IF a # 0 THEN a ELSE b

\* The cost figures _build_state_inner derives from the events, the ground
\* truth and the clock (rate 1, costs in units rounding keeps).
kpi_section(events, gt_daily, t) ==
    LET today_start     == iso_day(t) * SECONDS_PER_DAY
        week_start      == today_start - 6 * SECONDS_PER_DAY
        month_start     == iso_month(iso_day(t)) * DAYS_PER_MONTH * SECONDS_PER_DAY
        yesterday_start == today_start - SECONDS_PER_DAY
        today_events     == SelectSeq(events, LAMBDA e : e.ts >= today_start)
        week_events      == SelectSeq(events, LAMBDA e : e.ts >= week_start)
        month_events     == SelectSeq(events, LAMBDA e : e.ts >= month_start)
        yesterday_events == SelectSeq(events, LAMBDA e : yesterday_start <= e.ts /\ e.ts < today_start)
        gt_cost(day)     == IF day \in DOMAIN gt_daily THEN gt_daily[day] ELSE 0
        week_day(i)      == iso_day(week_start + i * SECONDS_PER_DAY)
        gt_week          == SumFn([i \in 0..6 |-> gt_cost(week_day(i))])
        gt_month         == SumFn([d \in {x \in DOMAIN gt_daily : iso_month(x) = iso_month(iso_day(t))}
                                      |-> gt_daily[d]])
    IN  [today_cost         |-> gt_or_tracked(gt_daily, iso_day(today_start), SumCost(today_events)),
         tracked_today_cost |-> SumCost(today_events),
         gt_today_available |-> iso_day(today_start) \in DOMAIN gt_daily,
         yesterday_cost     |-> gt_or_tracked(gt_daily, iso_day(yesterday_start),
                                              SumCost(yesterday_events)),
         week_cost          |-> Or(gt_week, SumCost(week_events)),
         month_cost         |-> Or(gt_month, SumCost(month_events))]

\* A snapshot is computed: load_events(), load_ground_truth(), the figures.
kpi_reply(r) ==
    /\ ~r.raised
    /\ SetGlobals(r.G)
    /\ kpi' = Some(kpi_section(r.events, ground_truth, now \div TicksPerSec))
    /\ resp' = [op |-> "kpi", status |-> 200]
    /\ UNCHANGED <<logger_vars, store_vars, now, _state_cache, _state_cache_ts, archive_file,
                   backup, ground_truth>>

ApiKpi == kpi_reply(load_events(File, Globals, FALSE))

\* The ground-truth file is replaced by one without a record for the day.
GtDrop(day) ==
    /\ day \in DOMAIN ground_truth
    /\ ground_truth' = [d \in DOMAIN ground_truth \ {day} |-> ground_truth[d]]
    /\ resp' = [op |-> "gt"]
    /\ UNCHANGED <<logger_vars, store_vars, now, cache_vars, _state_cache, _state_cache_ts,
                   archive_file, backup, kpi>>

\* The clock of the runs: noon of day 33, the fourth day of a month.
KPI_TODAY == 33
KpiNow    == (KPI_TODAY * SECONDS_PER_DAY + 43200) * TicksPerSec

\* Days events and ground-truth records are dated: outside the week, first
\* day of the week (previous month), yesterday, today.
KpiEventDays == {KPI_TODAY - 7, KPI_TODAY - 6, KPI_TODAY - 1, KPI_TODAY}
KpiGtDays    == {KPI_TODAY - 6, KPI_TODAY - 1, KPI_TODAY}
KpiEvents    == {Event(d * SECONDS_PER_DAY + 60, "build [ops]", c, "s1", DEFAULT_MODEL, None) :
                    d \in KpiEventDays, c \in {1, 2}}
KpiStores    == UNION {[1..n -> {ObjLine(e) : e \in KpiEvents}] : n \in 0..MaxKpiEvents}
KpiGroundTruths == UNION {[D -> {0, 3}] : D \in SUBSET KpiGtDays}

\* ---- auto_logger.py: the three modes, one invocation each ---------------------
MaxRuns == 3   \* adapter invocations

Invocation(mode, date, dry_run, fault) ==
    [n |-> adapter_log.n + 1, mode |-> mode, date |-> date, dry_run |-> dry_run,
     fault |-> fault]

\* --mode openclaw: _run under the pid lock.
SessionRun(dry_run, fault) ==
    /\ adapter_log.n < MaxRuns
    /\ Run(dry_run, fault)
    /\ adapter_log' = Invocation("openclaw", 0, dry_run, fault)
    /\ UNCHANGED <<csv_file, csv_report>>

\* The usage report of the Usage API for a date: it does not change.
UsageDates == {1, 2}
UsageReport(date) ==
    IF date = 1
    THEN <<[snapshot_id |-> "gpt-4o", n_context_tokens_total |-> 2, n_generated_tokens_total |-> 1],
           [snapshot_id |-> "gpt-4o", n_context_tokens_total |-> 0, n_generated_tokens_total |-> 0]>>
    ELSE <<>>

\* Cost of an entry at the gpt-4o prices (2.50 and 10.0 per million tokens),
\* in millionths of a dollar: round(cost, 6).
openai_cost(entry) ==
    (entry.n_context_tokens_total * 5) \div 2 + entry.n_generated_tokens_total * 10

\* The loop of _run_openai over the usage entries.
openai_events(date) ==
    LET entries == SelectSeq(UsageReport(date), LAMBDA en :
                      ~(openai_cost(en) = 0 /\ en.n_context_tokens_total = 0
                          /\ en.n_generated_tokens_total = 0))
    IN  [i \in 1..Len(entries) |->
            Event(date * SECONDS_PER_DAY, "OpenAI (" \o entries[i].snapshot_id \o ")",
                  openai_cost(entries[i]), "openai-usage", entries[i].snapshot_id, None)]

\* Outcomes of one --mode openai invocation:
\*   "fetch_fail"  urlopen raises: log_error and sys.exit(1)
\*   "append_fail" write_events_locked raises: the exception ends the process
OpenAIFaults == {"ok", "fetch_fail", "append_fail"}

\* _run_openai(args, run_start) for one date.
RunOpenAI(date, dry_run, fault) ==
    LET events  == openai_events(date)
        writes  == events # <<>> /\ ~dry_run
        aborted == fault = "fetch_fail" \/ (writes /\ fault = "append_fail")
        summary == [status |-> "ok", mode |-> "openai", date |-> date,
                    events_logged |-> Len(events), total_cost_usd |-> SumCost(events),
                    dry_run |-> dry_run]
    IN  /\ adapter_log.n < MaxRuns
        /\ Len(events_file) + Len(events) <= MaxStore
        /\ fault = "append_fail" => writes
        /\ IF writes /\ ~aborted THEN logger_write_events(events) ELSE UNCHANGED store_vars
        /\ last_run_file' = IF aborted THEN last_run_file ELSE Some(summary)
        /\ adapter_log' = Invocation("openai", date, dry_run, fault)
        /\ UNCHANGED <<csv_file, csv_report>>
        /\ UNCHANGED <<jsonl, state_file, exclude, emitted, gained, faulted, now, server_vars>>

MaxCsvRows == 2   \* rows of the CSV file

\* A row of the exported CSV file: date is the day, 0 for text strptime
\* rejects; cost is the amount, -1 for text float() rejects; tokens_ok tells
\* whether the four token columns are numbers.
CsvRow(date, cost, tokens_ok) == [date |-> date, cost |-> cost, tokens_ok |-> tokens_ok]

\* The file of the runs that do not vary it.
CsvRows == <<CsvRow(1, 3, TRUE), CsvRow(2, 0, TRUE)>>

\* The row goes through the loop body without an exception up to the cost
\* test, and its cost is zero: rows_skipped += 1 and continue.
csv_row_zero(row) == row.date # 0 /\ row.cost = 0

\* A row of cost zero is imported like any other.
csv_row_kept_zero(row) == row.date # 0 /\ row.cost # -1 /\ row.tokens_ok

\* The row reaches events.append(event): date, cost and token columns are
\* read without an exception and the cost is not zero.
csv_row_kept(row) == row.date # 0 /\ row.cost \notin {-1, 0} /\ row.tokens_ok

\* The loop of _run_csv over the rows: events, rows_read and rows_skipped
\* (zero-cost rows and rows whose parsing raised).
csv_scan(rows) ==
    LET kept == SelectSeq(rows, csv_row_kept)
    IN  [events |-> [i \in 1..Len(kept) |->
                        Event(kept[i].date * SECONDS_PER_DAY, "Anthropic CSV Import",
                              kept[i].cost, "csv-import", "claude", None)],
         rows_read    |-> Len(rows),
         rows_skipped |-> Len(SelectSeq(rows, csv_row_zero))
                             + Len(SelectSeq(rows, LAMBDA row :
                                              ~csv_row_zero(row) /\ ~csv_row_kept(row)))]

csv_events == csv_scan(csv_file).events

\* Outcomes of one --mode csv invocation:
\*   "csv_missing" the file does not exist or cannot be read: sys.exit(1)
\*   "append_fail" write_events_locked raises: the exception ends the process
CsvFaults == {"ok", "csv_missing", "append_fail"}

\* _run_csv(args, run_start)
RunCsv(dry_run, fault) ==
    LET events  == csv_events
        writes  == events # <<>> /\ ~dry_run
        aborted == fault = "csv_missing" \/ (writes /\ fault = "append_fail")
        summary == [status |-> "ok", mode |-> "csv", events_logged |-> Len(events),
                    total_cost_usd |-> SumCost(events), dry_run |-> dry_run]
    IN  /\ adapter_log.n < MaxRuns
        /\ Len(events_file) + Len(events) <= MaxStore
        /\ fault = "append_fail" => writes
        /\ IF writes /\ ~aborted THEN logger_write_events(events) ELSE UNCHANGED store_vars
        /\ last_run_file' = IF aborted THEN last_run_file ELSE Some(summary)
        /\ adapter_log' = Invocation("csv", 0, dry_run, fault)
        /\ csv_report' = IF fault = "csv_missing" THEN csv_report
                         ELSE Some([rows_read    |-> csv_scan(csv_file).rows_read,
                                    rows_skipped |-> csv_scan(csv_file).rows_skipped,
                                    events       |-> Len(events)])
        /\ UNCHANGED csv_file
        /\ UNCHANGED <<jsonl, state_file, exclude, emitted, gained, faulted, now, server_vars>>

\* ---- server.py: the locks and the threads that take them ---------------------
Threads == {"t1", "t2"}

\* _events_write_lock is the variable of that name; the other six are
\* lock_owner.
Locks == {"_events_write_lock", "_events_lock", "_state_cache_lock", "_gt_lock",
          "_anno_lock", "_rate_lock", "_sse_lock"}

Holder(l) == IF l = "_events_write_lock" THEN _events_write_lock ELSE lock_owner[l]

\* The locks a thread holds.
Held(t) == {l \in Locks : Holder(l) = t}

\* with l: ...: the lock operations of a with block around the operations body.
with_lock(l, body) == <<[a |-> "acquire", l |-> l]>> \o body \o <<[a |-> "release", l |-> l]>>

load_events_locks == with_lock("_events_lock", <<>>)
load_ground_truth_locks == with_lock("_gt_lock", <<>>)
write_events_locked_locks == with_lock("_events_write_lock", <<>>)
check_rate_limit_locks == with_lock("_rate_lock", <<>>)
save_annotations_locks == with_lock("_anno_lock", <<>>)

\* _build_state_inner(): load_events() and load_ground_truth()
build_state_inner_locks == load_events_locks \o load_ground_truth_locks

\* build_state(): the whole body is inside with _state_cache_lock; a snapshot
\* younger than the TTL (hit) is returned at once.
build_state_locks(hit) ==
    with_lock("_state_cache_lock", IF hit THEN <<>> ELSE build_state_inner_locks)

Requests == {"data", "health", "export", "import", "annotate", "subscribe", "broadcast"}

\* The lock operations of one request (or of one broadcaster tick), in order.
request_locks(op, hit) ==
    CASE op = "data"      -> build_state_locks(hit)
      [] op = "health"    -> load_events_locks
      [] op = "export"    -> check_rate_limit_locks \o load_events_locks
      [] op = "import"    -> load_events_locks \o write_events_locked_locks \o load_events_locks
      [] op = "annotate"  -> save_annotations_locks
      [] op = "subscribe" -> with_lock("_sse_lock", <<>>) \o build_state_locks(hit)
                                \o with_lock("_sse_lock", <<>>)
      [] op = "broadcast" -> build_state_locks(hit) \o with_lock("_sse_lock", <<>>)

\* A thread starts serving a request.
ThreadBegin(t, op, hit) ==
    /\ t_prog[t] = <<>>
    /\ t_prog' = [t_prog EXCEPT ![t] = request_locks(op, hit)]
    /\ UNCHANGED <<lock_owner, _events_write_lock>>

\* A thread does its next lock operation; acquire waits for a free lock.
ThreadStep(t) ==
    /\ t_prog[t] # <<>>
    /\ LET st == Head(t_prog[t])
           to == IF st.a = "acquire" THEN t ELSE ""
       IN  /\ st.a = "acquire" => Holder(st.l) = ""
           /\ IF st.l = "_events_write_lock"
              THEN _events_write_lock' = to /\ UNCHANGED lock_owner
              ELSE lock_owner' = [lock_owner EXCEPT ![st.l] = to]
                      /\ UNCHANGED _events_write_lock
    /\ t_prog' = [t_prog EXCEPT ![t] = Tail(t_prog[t])]

\* ---- server.py: annotations ---------------------------------------------------
MaxAnnos == 2   \* annotations added

AnnoIds == 1..MaxAnnos

\* A request for /api/annotations arrives: POST adds an annotation, DELETE
\* /api/annotations/<id> removes one.
AnnoBegin(t, op, id) ==
    /\ a_pc[t] = "idle"
    /\ op = "add" => (id = 0 /\ anno_next < MaxAnnos)
    /\ op = "delete" => id \in AnnoIds
    /\ a_req' = [a_req EXCEPT ![t] = [op |-> op, id |-> id]]
    /\ a_pc' = [a_pc EXCEPT ![t] = "load"]
    /\ UNCHANGED <<annotations_file, a_annos, anno_next, anno_added, anno_deleted, thread_vars>>

\* annos = load_annotations() and the change of the local dict: the new entry
\* under a fresh uuid, or del annos[anno_id]; an unknown id is answered 404.
AnnoLoad(t) ==
    /\ a_pc[t] = "load"
    /\ IF a_req[t].op = "add"
       THEN /\ anno_next' = anno_next + 1
            /\ a_req' = [a_req EXCEPT ![t].id = anno_next + 1]
            /\ a_annos' = [a_annos EXCEPT ![t] = annotations_file \cup {anno_next + 1}]
            /\ a_pc' = [a_pc EXCEPT ![t] = "acquire"]
       ELSE IF a_req[t].id \in annotations_file
       THEN /\ a_annos' = [a_annos EXCEPT ![t] = annotations_file \ {a_req[t].id}]
            /\ a_pc' = [a_pc EXCEPT ![t] = "acquire"]
            /\ UNCHANGED <<anno_next, a_req>>
       ELSE /\ a_pc' = [a_pc EXCEPT ![t] = "idle"]
            /\ UNCHANGED <<anno_next, a_req, a_annos>>
    /\ UNCHANGED <<annotations_file, anno_added, anno_deleted, thread_vars>>

\* save_annotations: with _anno_lock
AnnoAcquire(t) ==
    /\ a_pc[t] = "acquire"
    /\ lock_owner["_anno_lock"] = ""
    /\ lock_owner' = [lock_owner EXCEPT !["_anno_lock"] = t]
    /\ a_pc' = [a_pc EXCEPT ![t] = "write"]
    /\ UNCHANGED <<annotations_file, a_req, a_annos, anno_next, anno_added, anno_deleted, t_prog>>

\* save_annotations: json.dump(data, f) over the file
AnnoWrite(t) ==
    /\ a_pc[t] = "write"
    /\ annotations_file' = a_annos[t]
    /\ a_pc' = [a_pc EXCEPT ![t] = "release"]
    /\ UNCHANGED <<a_req, a_annos, anno_next, anno_added, anno_deleted, thread_vars>>

\* The with block ends and the request is answered {"ok": true}.
AnnoRelease(t) ==
    /\ a_pc[t] = "release"
    /\ lock_owner' = [lock_owner EXCEPT !["_anno_lock"] = ""]
    /\ a_pc' = [a_pc EXCEPT ![t] = "idle"]
    /\ anno_added' = IF a_req[t].op = "add" THEN anno_added \cup {a_req[t].id} ELSE anno_added
    /\ anno_deleted' = IF a_req[t].op = "delete" THEN anno_deleted \cup {a_req[t].id}
                       ELSE anno_deleted
    /\ UNCHANGED <<annotations_file, a_req, a_annos, anno_next, t_prog>>

\* ---- auto_logger.py: the label of a session -----------------------------------
\* A session key: its text, its first eight characters, the uuids the pattern
\* of session_label finds in it, and whether it contains "main" and "cron".
SessionKeys ==
    {[key |-> "agent:main:main", short |-> "agent:ma", uuids |-> <<>>,
      main |-> TRUE, cron |-> FALSE],
     [key |-> "agent:main:run:11111111-x", short |-> "agent:ma", uuids |-> <<"11111111-x">>,
      main |-> TRUE, cron |-> FALSE],
     [key |-> "agent:main:cron:11111111-x", short |-> "agent:ma", uuids |-> <<"11111111-x">>,
      main |-> TRUE, cron |-> TRUE],
     [key |-> "22222222-y", short |-> "22222222", uuids |-> <<"22222222-y">>,
      main |-> FALSE, cron |-> FALSE]}

\* SESSION_NAMES
SESSION_NAMES == [k \in {"agent:main:main"} |-> "KIRA"]

\* config session_label_overrides
OverrideLabels == {"My Custom", "Session review"}
OverrideTables(k) == {<<>>} \cup {[x \in {k.key} |-> l] : l \in OverrideLabels}

\* load_cron_names(): job id -> name. The id "11111111-x-run" contains the
\* uuid "11111111-x".
CronTables ==
    {<<>>, [i \in {"11111111-x"} |-> "Moltbook Daily"],
     [i \in {"11111111-x-run"} |-> "Nightly"]}

\* a in b, for a uuid and a job id
InStr(a, b) == a = b \/ (a = "11111111-x" /\ b = "11111111-x-run")

\* lbl.startswith("Session ")
StartsWithSession(lbl) ==
    lbl \in {"Session review"} \cup {"Session " \o k.short : k \in SessionKeys}

\* The first element of seq that satisfies Test, if any.
FirstThat(seq, Test(_)) ==
    LET hits == SelectSeq(seq, Test) IN IF hits = <<>> THEN None ELSE Some(Head(hits))

\* session_label(session_key, cron_names, overrides)
session_label(k, cron_names, overrides) ==
    LET exact   == FirstThat(k.uuids, LAMBDA uid : uid \in DOMAIN cron_names)
        partial == FirstThat(k.uuids, LAMBDA uid :
                      \E cron_id \in DOMAIN cron_names : InStr(uid, cron_id) \/ InStr(cron_id, uid))
    IN  IF k.key \in DOMAIN overrides THEN overrides[k.key]
        ELSE IF k.key \in DOMAIN SESSION_NAMES THEN SESSION_NAMES[k.key]
        ELSE IF exact # None THEN cron_names[exact[1]]
        ELSE IF k.main /\ ~k.cron THEN "KIRA"
        ELSE IF partial # None
        THEN cron_names[CHOOSE cron_id \in DOMAIN cron_names :
                            InStr(partial[1], cron_id) \/ InStr(cron_id, partial[1])]
        ELSE "Session " \o k.short

\* smart_label_from_jsonl(fpath): None when the file has no dated cost line.
SmartLabels == {None, Some("Sonnet · h1")}

\* _run: the label of one session file.
run_session_label(k, cron_names, overrides, smart) ==
    LET lbl == session_label(k, cron_names, overrides)
    IN  IF StartsWithSession(lbl) /\ smart # None THEN smart[1] ELSE lbl

LabelInputs ==
    UNION {[k : {k}, cron_names : CronTables, overrides : OverrideTables(k), smart : SmartLabels]
              : k \in SessionKeys}

\* _run labels the session.
LabelSession ==
    /\ lbl_out = None
    /\ lbl_out' = Some(run_session_label(lbl_in.k, lbl_in.cron_names, lbl_in.overrides,
                                         lbl_in.smart))
    /\ UNCHANGED lbl_in

\* ---- server.py: rate limiter ---------------------------------------------------
MaxRateSec == 6   \* seconds the clock runs on in the rate-limit runs

\* check_rate_limit(f"export:{ip}", 5)
EXPORT_INTERVAL_SEC == 5

\* Clients by address, and their rate-limit keys.
Clients == {"10.0.0.1", "10.0.0.2"}
RateKeys == {"export:" \o ip : ip \in Clients}

\* A denied call leaves its time in the map as well.
check_rate_limit_restart(limits, key, interval_sec, clock) ==
    [allowed |-> ~((clock - limits[key]) < interval_sec * TicksPerSec),
     limits  |-> [limits EXCEPT ![key] = clock]]

\* check_rate_limit(key, interval_sec) at time clock on the map limits: the
\* answer and the map afterwards. The body runs inside with _rate_lock.
check_rate_limit(limits, key, interval_sec, clock) ==
    IF (clock - limits[key]) < interval_sec * TicksPerSec
    THEN [allowed |-> FALSE, limits |-> limits]
    ELSE [allowed |-> TRUE, limits |-> [limits EXCEPT ![key] = clock]]

\* The /api/export handler once check_rate_limit has answered c: 429, or
\* _export_csv with the events load_events() returns.
export_reply(c, key) ==
    LET r == load_events(File, Globals, FALSE)
    IN  /\ _rate_limits' = c.limits
        /\ rate_allowed' = IF c.allowed THEN [rate_allowed EXCEPT ![key] = Some(now)]
                           ELSE rate_allowed
        /\ rate_denied' = IF c.allowed THEN rate_denied ELSE [rate_denied EXCEPT ![key] = TRUE]
        /\ IF c.allowed THEN SetGlobals(r.G) ELSE UNCHANGED cache_vars
        /\ resp' = [op |-> "export", key |-> key,
                    status |-> IF ~c.allowed THEN 429 ELSE IF r.raised THEN 500 ELSE 200]
        /\ UNCHANGED <<logger_vars, store_vars, now, _state_cache, _state_cache_ts,
                       archive_file, backup>>

\* GET /api/export from the client at address ip.
ApiExport(ip) ==
    export_reply(check_rate_limit(_rate_limits, "export:" \o ip, EXPORT_INTERVAL_SEC, now),
                 "export:" \o ip)

\* The first instant of the rate-limit runs: time.time() is far greater than
\* any interval.
RATE_EPOCH == EXPORT_INTERVAL_SEC * TicksPerSec

\* The wall clock advances by one tick.
RateTick ==
    /\ now < RATE_EPOCH + MaxRateSec * TicksPerSec
    /\ now' = now + 1
    /\ UNCHANGED <<logger_vars, store_vars, server_vars, rate_vars>>

\* ---- server.py: efficiency score ------------------------------------------------
\* The rules of compute_efficiency in the order of the code, with their
\* severity; always = TRUE for the two rules appended without a test.
EFFICIENCY_RULES ==
    <<[id |-> "message_batching",      severity |-> "high",   always |-> FALSE],
      [id |-> "long_session",          severity |-> "medium", always |-> FALSE],
      [id |-> "main_session_overuse",  severity |-> "medium", always |-> FALSE],
      [id |-> "low_cache_efficiency",  severity |-> "medium", always |-> FALSE],
      [id |-> "sequential_subagents",  severity |-> "low",    always |-> FALSE],
      [id |-> "off_peak_scheduling",   severity |-> "low",    always |-> FALSE],
      [id |-> "tri_model_routing",     severity |-> "medium", always |-> TRUE],
      [id |-> "cron_announce_in_main", severity |-> "high",   always |-> FALSE],
      [id |-> "daily_restart",         severity |-> "low",    always |-> TRUE]>>

TestedRules == {EFFICIENCY_RULES[i].id : i \in {j \in 1..Len(EFFICIENCY_RULES) :
                                                   ~EFFICIENCY_RULES[j].always}}

\* Every severity costs five points.
deductions_flat(severity) ==
    CASE severity = "high" -> 5 [] severity = "medium" -> 5 [] severity = "low" -> 5
      [] OTHER -> 0

\* deductions.get(severity, 0)
deductions(severity) ==
    CASE severity = "high" -> 20 [] severity = "medium" -> 10 [] severity = "low" -> 5
      [] OTHER -> 0

\* sum(deductions.get(r["severity"], 0) for r in rules)
RECURSIVE sum_deductions(_)
sum_deductions(rules) ==
    IF rules = <<>> THEN 0
    ELSE deductions(Head(rules).severity) + sum_deductions(Tail(rules))

grade_of(score) ==
    IF score >= 90 THEN "A" ELSE IF score >= 75 THEN "B" ELSE IF score >= 60 THEN "C"
    ELSE IF score >= 40 THEN "D" ELSE "F"

\* The rule list holds the rules whose test holds and no others.
compute_efficiency_tested_only(in) ==
    IF ~in.today_events THEN [score |-> 100, grade |-> "A", rules |-> <<>>]
    ELSE LET rules == SelectSeq(EFFICIENCY_RULES, LAMBDA r : r.id \in in.fired)
             total == sum_deductions(rules)
             score == IF 100 - total > 0 THEN 100 - total ELSE 0
         IN  [score |-> score, grade |-> grade_of(score), rules |-> rules]

\* compute_efficiency(): score, grade and rules, for a day with or without
\* events and the set of rules whose test holds.
compute_efficiency(in) ==
    IF ~in.today_events THEN [score |-> 100, grade |-> "A", rules |-> <<>>]
    ELSE LET rules == SelectSeq(EFFICIENCY_RULES, LAMBDA r : r.always \/ r.id \in in.fired)
             total == sum_deductions(rules)
             score == IF 100 - total > 0 THEN 100 - total ELSE 0
         IN  [score |-> score, grade |-> grade_of(score), rules |-> rules]

EfficiencyInputs == [today_events : BOOLEAN, fired : SUBSET TestedRules]

\* GET /api/efficiency
ApiEfficiency ==
    /\ eff_out = None
    /\ eff_out' = Some(compute_efficiency(eff_in))
    /\ UNCHANGED eff_in

\* ---- server.py: percentile -------------------------------------------------------
MaxCosts == 3   \* length of the drawn cost lists

\* sorted(data), ascending
RECURSIVE insert_asc(_, _)
insert_asc(sorted, x) ==
    IF sorted = <<>> THEN <<x>>
    ELSE IF Head(sorted) <= x THEN <<Head(sorted)>> \o insert_asc(Tail(sorted), x)
    ELSE <<x>> \o sorted

RECURSIVE sorted_asc(_)
sorted_asc(data) ==
    IF data = <<>> THEN <<>>
    ELSE insert_asc(sorted_asc(SubSeq(data, 1, Len(data) - 1)), data[Len(data)])

\* The value at the rank rounded down, without interpolation.
percentile_floor(data, pct) ==
    IF data = <<>> THEN 0
    ELSE LET sd == sorted_asc(data)
             lo == ((Len(sd) - 1) * pct) \div 100
         IN  sd[lo + 1] * 100

\* percentile(data, pct), in hundredths: k = (len(s) - 1) * pct / 100 is kept
\* as k100 = 100 * k, and s[lo] + (s[hi] - s[lo]) * (k - lo) is multiplied by
\* 100. Python indexes from 0, sequences from 1.
percentile(data, pct) ==
    IF data = <<>> THEN 0
    ELSE LET sd   == sorted_asc(data)
             k100 == (Len(sd) - 1) * pct
             lo   == k100 \div 100
             hi   == IF lo + 1 < Len(sd) - 1 THEN lo + 1 ELSE Len(sd) - 1
         IN  sd[lo + 1] * 100 + (sd[hi + 1] - sd[lo + 1]) * (k100 - lo * 100)

CostValues == {1, 2, 5}
CostLists ==
    UNION {[1..n -> CostValues] : n \in 0..MaxCosts} \cup {<<1, 2, 3, 4, 5, 6, 7, 8, 9, 10>>}

PercentileInputs == [data : CostLists, pct : 0..100]

\* One call of percentile.
CallPercentile ==
    /\ pct_out = None
    /\ pct_out' = Some(percentile(pct_in.data, pct_in.pct))
    /\ UNCHANGED pct_in

\* ---- server.py: concurrent bulk imports ----------------------------------------
NoImport == [existing_ids |-> {}, new_events |-> <<>>, bad |-> 0, dupes |-> 0]

\* _import_events up to the end of its loop: load_events(), existing_ids and
\* the scan of the body. No lock is held.
ImportBegin(t, body) ==
    LET r1 == load_events(File, Globals, FALSE)
        acc == import_scan(r1, body)
    IN  /\ i_pc[t] = "idle"
        /\ ~r1.raised
        /\ SetGlobals(r1.G)
        /\ i_acc' = [i_acc EXCEPT ![t] = acc]
        /\ i_pc' = [i_pc EXCEPT ![t] = IF acc.new_events = <<>> THEN "reply" ELSE "write"]
        /\ UNCHANGED <<store_vars, _state_cache, resp, imported_total>>

\* write_events_locked(new_events): the append, inside with _events_write_lock.
ImportWrite(t) ==
    /\ i_pc[t] = "write"
    /\ _events_write_lock = ""
    /\ Len(events_file) + Len(i_acc[t].new_events) <= MaxLines
    /\ SetFile(write_events_locked(File, i_acc[t].new_events, now))
    /\ i_pc' = [i_pc EXCEPT ![t] = "reload"]
    /\ UNCHANGED <<cache_vars, _state_cache, resp, i_acc, imported_total>>

\* load_events(force=True) and _state_cache = None
ImportReload(t) ==
    LET r2 == load_events(File, Globals, TRUE)
    IN  /\ i_pc[t] = "reload"
        /\ SetGlobals(r2.G)
        /\ _state_cache' = None
        /\ i_pc' = [i_pc EXCEPT ![t] = "reply"]
        /\ UNCHANGED <<store_vars, resp, i_acc, imported_total>>

\* The reply {ok, imported, skipped_malformed, skipped_dupes}.
ImportReply(t) ==
    /\ i_pc[t] = "reply"
    /\ resp' = [op |-> "import", status |-> 200, thread |-> t,
                imported |-> Len(i_acc[t].new_events),
                skipped_malformed |-> i_acc[t].bad, skipped_dupes |-> i_acc[t].dupes]
    /\ imported_total' = imported_total + Len(i_acc[t].new_events)
    /\ i_pc' = [i_pc EXCEPT ![t] = "idle"]
    /\ i_acc' = [i_acc EXCEPT ![t] = NoImport]
    /\ UNCHANGED <<store_vars, cache_vars, _state_cache>>


\* ---- auto_logger.py: the PID lock -----------------------------------------------
\* Two invocations of the Session-Log adapter; an instance stands for the
\* process and for its pid.
Instances == {"p1", "p2"}

\* os.kill(old_pid, 0) succeeds: the process with that pid exists.
pid_alive(p) == p_pc[p] # "idle"

\* acquire_pid_lock up to its first try block: False when the PID file names a
\* live process, otherwise on to the write.
acquire_pid_lock_check(p) ==
    IF pid_file # None /\ pid_alive(pid_file[1]) THEN "exit" ELSE "write"

\* An instance is started in openclaw mode.
PidStart(p) ==
    /\ p_pc[p] = "idle"
    /\ p_pc' = [p_pc EXCEPT ![p] = "check"]
    /\ UNCHANGED <<pid_file, logger_vars, store_vars, now, server_vars>>

\* acquire_pid_lock: os.path.exists, read, os.kill; sys.exit(1) on False.
PidCheck(p) ==
    /\ p_pc[p] = "check"
    /\ p_pc' = [p_pc EXCEPT ![p] = IF acquire_pid_lock_check(p) = "exit" THEN "idle"
                                   ELSE "write"]
    /\ UNCHANGED <<pid_file, logger_vars, store_vars, now, server_vars>>

\* acquire_pid_lock: open(PID_FILE, "w") and write of the own pid; True either way.
PidWrite(p, ok) ==
    /\ p_pc[p] = "write"
    /\ pid_file' = IF ok THEN Some(p) ELSE pid_file
    /\ p_pc' = [p_pc EXCEPT ![p] = "run"]
    /\ UNCHANGED <<logger_vars, store_vars, now, server_vars>>

\* _run(args, run_start) of an instance past the lock.
PidRun(p) ==
    /\ p_pc[p] = "run"
    /\ \E f \in Faults : Run(FALSE, f)
    /\ p_pc' = [p_pc EXCEPT ![p] = "release"]
    /\ UNCHANGED pid_file

\* finally: release_pid_lock removes the PID file if it exists; the process ends.
PidRelease(p) ==
    /\ p_pc[p] = "release"
    /\ pid_file' = None
    /\ p_pc' = [p_pc EXCEPT ![p] = "idle"]
    /\ UNCHANGED <<logger_vars, store_vars, now, server_vars>>


\* ---- auto_logger.py: pricing of a usage bucket ------------------------------------
MaxPricing == 2   \* entries of openai_pricing in config.json
MaxTokens == 2    \* tokens of a usage bucket, each direction

\* Model ids and pricing keys are strings, given as the sequence of their
\* parts: "gpt-4o-mini" is <<"gpt", "4o", "mini">>.
GPT_4O == <<"gpt", "4o">>
GPT_4O_MINI == <<"gpt", "4o", "mini">>
PricingKeys == {GPT_4O, GPT_4O_MINI, <<"o1">>}
ModelIds == {GPT_4O, <<"gpt", "4o", "2024">>, GPT_4O_MINI, <<"gpt", "4o", "mini", "2024">>,
             <<"o1", "mini">>, <<"ft", "gpt", "4o">>, <<"gpt", "35">>}

\* str.startswith and the substring test `in`.
startswith(s, prefix) == Len(prefix) <= Len(s) /\ SubSeq(s, 1, Len(prefix)) = prefix
contains(s, sub) ==
    \E i \in 0..(Len(s) - Len(sub)) : SubSeq(s, i + 1, i + Len(sub)) = sub

\* default_pricing, per million tokens, in cents; of a dict, the items in
\* insertion order.
default_pricing ==
    <<[key |-> GPT_4O, input |-> 250, output |-> 1000],
      [key |-> GPT_4O_MINI, input |-> 15, output |-> 60]>>

\* The price an operator sets for a key in config.json.
config_price(key) == [key |-> key, input |-> 300 + Len(key), output |-> 1200 + Len(key)]

\* pricing_map: openai_pricing of the config, then the defaults it lacks.
pricing_map(cfg) ==
    cfg \o SelectSeq(default_pricing, LAMBDA d : \A i \in 1..Len(cfg) : cfg[i].key # d.key)

\* The entry a table holds for a key, if any (dict.get).
pricing_get(table, key) ==
    LET hits == SelectSeq(table, LAMBDA e : e.key = key)
    IN  IF hits = <<>> THEN None ELSE Some(hits[1])

\* The matching loop of _run_openai and its fallback.
bucket_pricing(table, model_id) ==
    LET hits == SelectSeq(table, LAMBDA e : startswith(model_id, e.key)
                                               \/ contains(model_id, e.key))
    IN  IF hits # <<>> THEN hits[1]
        ELSE IF pricing_get(table, GPT_4O) # None THEN pricing_get(table, GPT_4O)[1]
        ELSE default_pricing[1]

\* cost_usd of a bucket, in hundred-millionths of a dollar.
bucket_cost(pricing, entry) ==
    entry.n_context_tokens_total * pricing.input
        + entry.n_generated_tokens_total * pricing.output

\* The config tables: up to MaxPricing distinct keys in any order.
ConfigTables ==
    {<<>>} \cup
    UNION {{[i \in 1..n |-> config_price(ks[i])] :
               ks \in {f \in [1..n -> PricingKeys] : \A i, j \in 1..n : i # j => f[i] # f[j]}}
           : n \in 1..MaxPricing}

PricingInputs ==
    [cfg : ConfigTables,
     entry : [snapshot_id : ModelIds, n_context_tokens_total : {0, MaxTokens},
              n_generated_tokens_total : {1}]]

\* One pass of the loop of _run_openai over a usage entry.
PriceBucket ==
    LET pricing == bucket_pricing(pricing_map(pr_in.cfg), pr_in.entry.snapshot_id)
    IN  /\ pr_out = None
        /\ pr_out' = Some([pricing |-> pricing, cost_usd |-> bucket_cost(pricing, pr_in.entry)])
        /\ UNCHANGED pr_in


\* ---- server.py: recurring tasks and anomalies ---------------------------------------
MaxFlagEvents == 6   \* events of the store in the runs of the flags

\* Task labels with and without surrounding whitespace; str.strip on them.
FlagTasks == {"build", "build "}
strip(task) == IF task = "build " THEN "build" ELSE task

\* task_counts and recurring_tasks: stripped task -> number of events.
recurring_tasks(events) ==
    {t \in {strip(events[i].task) : i \in 1..Len(events)} :
        t # "" /\ Len(SelectSeq(events, LAMBDA e : strip(e.task) = t)) >= 3}

\* task_cost_lists[t]: the positive costs of the events whose stripped task is t.
task_cost_lists(events, t) ==
    SelectSeq(events, LAMBDA e : strip(e.task) = t /\ t # "" /\ e.cost_usd > 0)

\* avg > 0 and cost > 5 * avg and cost > 2.0, avg being task_avg.get(key, 0).
exceeds_task_avg(events, key, cost) ==
    LET cs == task_cost_lists(events, key)
    IN  /\ cs # <<>>
        /\ cost * Len(cs) > 5 * SumCost(cs)
        /\ cost > 2

\* The flags of one row of recent_tasks: the lookups use the task as stored.
recent_flags(events, e) ==
    [id |-> e.id,
     is_recurring |-> e.task \in recurring_tasks(events),
     anomaly |-> exceeds_task_avg(events, e.task, e.cost_usd)]

\* computed_anomalies: the lookup uses the stripped task.
computed_anomalies(events) ==
    SelectSeq(events, LAMBDA e : e.today /\ exceeds_task_avg(events, strip(e.task), e.cost_usd))

\* Both lists of the snapshot, from the events of the store.
flag_section(events) ==
    [recent_tasks |-> [i \in 1..Len(events) |-> recent_flags(events, events[i])],
     anomaly_ids  |-> {computed_anomalies(events)[i].id
                         : i \in 1..Len(computed_anomalies(events))}]

\* Stores of up to MaxFlagEvents events, the first one of today or older.
FlagStores(max) ==
    UNION {{[i \in 1..n |-> [id |-> i, task |-> f[i][1], cost_usd |-> f[i][2],
                             today |-> (i > 1 \/ first_today)]] :
               f \in [1..n -> FlagTasks \X {1, 30}], first_today \in BOOLEAN}
           : n \in 0..max}

\* _build_state_inner computes the snapshot's flags.
BuildFlags ==
    /\ flag_out = None
    /\ flag_out' = Some(flag_section(flag_in))
    /\ UNCHANGED flag_in


\* ---- server.py: linear regression and the 3-day forecast ----------------------------
MaxDailyTotal == 10   \* the largest daily total of the runs, in dollars

\* range(7): the days of weekly_chart
WEEK_DAYS == 7
\* range(3): the days of forecast_3d
FORECAST_DAYS == 3
\* round(cost, 4): the units of a dollar a forecast cost is rounded to
COST_UNITS == 10000

\* Fractions, the denominator positive: the values of the float arithmetic,
\* taken to be exact.
Frac(num, den) == [num |-> num, den |-> den]

RECURSIVE Gcd(_, _)
Gcd(a, b) == IF b = 0 THEN a ELSE Gcd(b, a % b)

frac_add(a, b) ==
    LET l == (a.den \div Gcd(a.den, b.den)) * b.den
    IN  Frac(a.num * (l \div a.den) + b.num * (l \div b.den), l)

frac_scale(a, k) == Frac(a.num * k, a.den)

RECURSIVE sum_products(_, _)
sum_products(xs, ys) ==
    IF xs = <<>> THEN 0 ELSE Head(xs) * Head(ys) + sum_products(Tail(xs), Tail(ys))

ones(n) == [i \in 1..n |-> 1]

\* The intercept is the mean of ys whatever the slope.
linear_regression_mean_intercept(xs, ys) ==
    LET n     == Len(xs)
        sx    == sum_products(xs, ones(n))
        sy    == sum_products(ys, ones(n))
        sxy   == sum_products(xs, ys)
        sxx   == sum_products(xs, xs)
        denom == n * sxx - sx * sx
    IN  IF n < 2 THEN [slope |-> Frac(0, 1), intercept |-> Frac(IF ys # <<>> THEN ys[1] ELSE 0, 1)]
        ELSE IF denom = 0 THEN [slope |-> Frac(0, 1), intercept |-> Frac(sy, n)]
        ELSE [slope |-> Frac(n * sxy - sx * sy, denom), intercept |-> Frac(sy, n)]

\* linear_regression(xs, ys): (slope, intercept)
linear_regression(xs, ys) ==
    LET n     == Len(xs)
        sx    == sum_products(xs, ones(n))
        sy    == sum_products(ys, ones(n))
        sxy   == sum_products(xs, ys)
        sxx   == sum_products(xs, xs)
        denom == n * sxx - sx * sx
        slope == Frac(n * sxy - sx * sy, denom)
    IN  IF n < 2 THEN [slope |-> Frac(0, 1), intercept |-> Frac(IF ys # <<>> THEN ys[1] ELSE 0, 1)]
        ELSE IF denom = 0 THEN [slope |-> Frac(0, 1), intercept |-> Frac(sy, n)]
        ELSE [slope |-> slope,
              intercept |-> Frac(sy * denom - slope.num * sx, denom * n)]

\* round(v, 4) of a fraction of a dollar: the nearest 1/10000, ties to even.
round_units(v) ==
    LET p  == v.num * COST_UNITS
        fl == p \div v.den
        r  == p % v.den
    IN  IF 2 * r < v.den THEN fl
        ELSE IF 2 * r > v.den THEN fl + 1
        ELSE IF fl % 2 = 0 THEN fl ELSE fl + 1

\* forecast_3d from the costs of weekly_chart.
forecast_3d(y_vals) ==
    LET x_vals == [i \in 1..WEEK_DAYS |-> i - 1]
        lr     == linear_regression(x_vals, y_vals)
    IN  [i \in 1..FORECAST_DAYS |->
            LET cost == round_units(frac_add(frac_scale(lr.slope, WEEK_DAYS + i - 1),
                                             lr.intercept))
            IN  IF cost > 0 THEN cost ELSE 0]

DailyTotals == {0, 1, MaxDailyTotal}
WeeklyCosts == [1..WEEK_DAYS -> DailyTotals]

\* _build_state_inner computes the forecast of the snapshot.
BuildForecast ==
    /\ fc_out = None
    /\ fc_out' = Some(forecast_3d(fc_in))
    /\ UNCHANGED fc_in


\* ---- server.py: burst analysis and the message_batching rule -------------------------
MaxBurstMsgs == 7   \* primary-session messages of a day, but for the day of 20

\* A gap of more than 300 seconds starts a new burst.
BURST_GAP_SEC == 300
\* burst_count > 5
MIN_BURSTS == 5
\* avg_burst_size < 3, and the ideal burst size
BURST_SIZE == 3

\* sorted(..., key=ts): stable, ascending by ts
RECURSIVE insert_by_ts(_, _)
insert_by_ts(sorted, e) ==
    IF sorted = <<>> THEN <<e>>
    ELSE IF Head(sorted).ts <= e.ts THEN <<Head(sorted)>> \o insert_by_ts(Tail(sorted), e)
    ELSE <<e>> \o sorted

RECURSIVE sorted_by_ts(_)
sorted_by_ts(evs) ==
    IF evs = <<>> THEN <<>>
    ELSE insert_by_ts(sorted_by_ts(SubSeq(evs, 1, Len(evs) - 1)), evs[Len(evs)])

\* kira_events: the events of the primary session, by ts.
kira_events(today_events) == sorted_by_ts(SelectSeq(today_events, LAMBDA e : e.task = "KIRA"))

\* A gap of exactly 300 seconds starts a new burst too.
starts_burst_inclusive(prev, ev) == ev.ts - prev.ts >= BURST_GAP_SEC

\* ev.get("ts", 0) - cur[-1].get("ts", 0) > 300
starts_burst(prev, ev) == ev.ts - prev.ts > BURST_GAP_SEC

\* The loop of the burst analysis over kira_events[1:], cur being the burst
\* in progress.
RECURSIVE split_bursts(_, _, _)
split_bursts(evs, cur, bursts) ==
    IF evs = <<>> THEN Append(bursts, cur)
    ELSE IF starts_burst(cur[Len(cur)], Head(evs))
         THEN split_bursts(Tail(evs), <<Head(evs)>>, Append(bursts, cur))
         ELSE split_bursts(Tail(evs), Append(cur, Head(evs)), bursts)

\* round(v, 2) of a fraction of cents: the nearest cent, ties to even.
round_cents(v) ==
    LET fl == v.num \div v.den
        r  == v.num % v.den
    IN  IF 2 * r < v.den THEN fl
        ELSE IF 2 * r > v.den THEN fl + 1
        ELSE IF fl % 2 = 0 THEN fl ELSE fl + 1

\* Burst analysis and rule 1 of compute_efficiency; costs in cents.
\*   ideal_bursts = burst_count * avg_burst_size / 3
\*   est_savings  = max(0, (burst_count - ideal_bursts) * avg_msg_cost * 0.4)
message_batching(today_events) ==
    LET kira        == kira_events(today_events)
        bursts      == IF kira = <<>> THEN <<>> ELSE split_bursts(Tail(kira), <<Head(kira)>>, <<>>)
        burst_count == Len(bursts)
        n           == Len(kira)
        kira_cost   == SumCost(kira)
        \* (burst_count - n/3) * (kira_cost/n) * 4/10
        est         == Frac((BURST_SIZE * burst_count - n) * kira_cost * 4, BURST_SIZE * n * 10)
        fires       == today_events # <<>> /\ burst_count > MIN_BURSTS
                          /\ n < BURST_SIZE * burst_count
    IN  [burst_count |-> burst_count,
         bursts |-> [i \in 1..burst_count |-> Len(bursts[i])],
         rules |-> IF fires
                   THEN <<[id |-> "message_batching", severity |-> "high",
                           est_savings_usd |-> IF est.num > 0 THEN round_cents(est) ELSE 0]>>
                   ELSE <<>>]

\* The days of the runs: primary-session messages 1, 300 or 301 seconds
\* apart, each at the same cost, stored in order or reversed, with or
\* without an event of another task; the day of 20 messages in 10 bursts of
\* 2, and the day of 18 messages in 6 bursts of 3.
BurstGaps == {1, BURST_GAP_SEC, BURST_GAP_SEC + 1}
GapLists(max) == UNION {[1..n -> BurstGaps] : n \in 0..(max - 1)}
TwentyGaps == [i \in 1..19 |-> IF i % 2 = 1 THEN 1 ELSE BURST_GAP_SEC + 1]
EighteenGaps == [i \in 1..17 |-> IF i % 3 = 0 THEN BURST_GAP_SEC + 1 ELSE 1]

RECURSIVE ts_after(_, _)
ts_after(gaps, i) == IF i = 0 THEN 1 ELSE ts_after(gaps, i - 1) + gaps[i]

day_events(gaps, cost, reversed, other) ==
    LET n    == Len(gaps) + 1
        msgs == [i \in 1..n |-> [ts |-> ts_after(gaps, IF reversed THEN n - i ELSE i - 1),
                                 task |-> "KIRA", cost_usd |-> cost]]
    IN  IF other THEN <<[ts |-> 2, task |-> "build [ops]", cost_usd |-> cost]>> \o msgs
        ELSE msgs

BurstDays(max) ==
    {<<>>} \cup {day_events(g, c, r, o) : g \in GapLists(max) \cup {TwentyGaps, EighteenGaps}, c \in {0, 10},
                                           r \in BOOLEAN, o \in BOOLEAN}

\* compute_efficiency analyses the bursts of the day.
AnalyseBursts ==
    /\ burst_out = None
    /\ burst_out' = Some(message_batching(burst_in))
    /\ UNCHANGED burst_in


\* ---- server.py: threshold webhook ------------------------------------------------------
MaxAlerts == 2      \* webhook send attempts of a run
MaxTodayCost == 2   \* today's cost, in dollars

AlertConfigs == [notify_on_threshold : BOOLEAN, webhook_url : BOOLEAN, daily_budget_usd : 1..2]

\* The flag is cleared by every check that does not send.
check_threshold_alert_rearm(alerted, cfg, today, built) ==
    IF ~cfg.notify_on_threshold \/ ~cfg.webhook_url \/ ~built
    THEN [alerted |-> FALSE, send |-> FALSE]
    ELSE IF today >= cfg.daily_budget_usd /\ ~alerted THEN [alerted |-> TRUE, send |-> TRUE]
    ELSE [alerted |-> FALSE, send |-> FALSE]

\* check_threshold_alert(): the flag afterwards and whether urlopen was
\* called; built is FALSE when _build_state_inner() raises.
check_threshold_alert(alerted, cfg, today, built) ==
    IF ~cfg.notify_on_threshold \/ ~cfg.webhook_url \/ ~built
    THEN [alerted |-> alerted, send |-> FALSE]
    ELSE IF today >= cfg.daily_budget_usd /\ ~alerted THEN [alerted |-> TRUE, send |-> TRUE]
    ELSE IF today < cfg.daily_budget_usd THEN [alerted |-> FALSE, send |-> FALSE]
    ELSE [alerted |-> alerted, send |-> FALSE]

\* A tick of sse_broadcaster with subscribers calls check_threshold_alert();
\* the send itself may succeed or raise, which changes nothing further.
AlertCheck(built) ==
    LET r        == check_threshold_alert(_threshold_alerted, alert_cfg, today_cost, built)
        observed == alert_cfg.notify_on_threshold /\ alert_cfg.webhook_url /\ built
    IN  /\ r.send => alert_attempts < MaxAlerts
        /\ _threshold_alerted' = r.alerted
        /\ alert_attempts' = IF r.send THEN alert_attempts + 1 ELSE alert_attempts
        /\ seen_below' = IF r.send THEN FALSE
                         ELSE (seen_below \/ (observed /\ today_cost < alert_cfg.daily_budget_usd))
        /\ resp' = [op |-> "alert_check", send |-> r.send]
        /\ UNCHANGED <<alert_cfg, today_cost>>

\* Events are appended, or the day ends: today's cost changes.
CostChange(c) ==
    /\ c # today_cost
    /\ today_cost' = c
    /\ resp' = [op |-> "cost_change"]
    /\ UNCHANGED <<alert_cfg, _threshold_alerted, alert_attempts, seen_below>>

\* POST /api/config changes the notification settings.
ConfigChange(cfg) ==
    /\ cfg # alert_cfg
    /\ alert_cfg' = cfg
    /\ resp' = [op |-> "config"]
    /\ UNCHANGED <<today_cost, _threshold_alerted, alert_attempts, seen_below>>

vars == <<logger_vars, store_vars, now, server_vars, lock_vars, sse_vars, kpi_vars,
          adapter_vars, ext_vars>>

\* The state after construction, but for the store, the ground truth and the clock.
InitProcess ==
    /\ jsonl = [u \in Uuids |-> <<>>]
    /\ state_file = [u \in Uuids |-> None]
    /\ exclude \in {{}, {"s2"}}
    /\ last_run_file = None
    /\ emitted = [u \in Uuids |-> <<>>]
    /\ gained = TRUE
    /\ faulted = FALSE
    /\ _events_cache = None
    /\ _events_mtime = 0
    /\ _events_demo_mode = FALSE
    /\ _malformed_count = 0
    /\ _SESSION_LABEL_CACHE = [l \in AnonLabels |-> None]
    /\ _state_cache = None
    /\ _state_cache_ts = 0
    /\ archive_file = <<>>
    /\ backup = None
    /\ resp = [op |-> "start"]
    /\ _events_write_lock = ""
    /\ m_pc = "idle"
    /\ m_op = "none"
    /\ m_lines = <<>>
    /\ m_archive = <<>>
    /\ appended = {}
    /\ _sse_clients = <<>>
    /\ sse_queue = [s \in Subs |-> <<>>]
    /\ h_pc = [s \in Subs |-> "idle"]
    /\ h_msg = [s \in Subs |-> None]
    /\ conn = [s \in Subs |-> "open"]
    /\ delivered = [s \in Subs |-> <<>>]
    /\ enqueued = [s \in Subs |-> <<>>]
    /\ bc_pc = "sleep"
    /\ bc_msg = None
    /\ ticks = 0
    /\ kpi = None
    /\ lock_owner = [l \in Locks \ {"_events_write_lock"} |-> ""]
    /\ t_prog = [t \in Threads |-> <<>>]
    /\ annotations_file = {}
    /\ a_pc = [t \in Threads |-> "idle"]
    /\ a_req = [t \in Threads |-> [op |-> "none", id |-> 0]]
    /\ a_annos = [t \in Threads |-> {}]
    /\ anno_next = 0
    /\ anno_added = {}
    /\ anno_deleted = {}
    /\ lbl_out = None
    /\ csv_report = None
    /\ i_pc = [t \in Threads |-> "idle"]
    /\ i_acc = [t \in Threads |-> NoImport]
    /\ imported_total = 0
    /\ pct_out = None
    /\ eff_out = None
    /\ _rate_limits = [k \in RateKeys |-> 0]
    /\ rate_allowed = [k \in RateKeys |-> None]
    /\ rate_denied = [k \in RateKeys |-> FALSE]
    /\ adapter_log = [n |-> 0, mode |-> "none", date |-> 0, dry_run |-> FALSE, fault |-> "ok"]
    /\ pid_file = None
    /\ p_pc = [p \in Instances |-> "idle"]
    /\ pr_out = None
    /\ flag_out = None
    /\ fc_out = None
    /\ burst_out = None
    /\ alert_cfg = [notify_on_threshold |-> FALSE, webhook_url |-> FALSE, daily_budget_usd |-> 2]
    /\ today_cost = 0
    /\ _threshold_alerted = FALSE
    /\ alert_attempts = 0
    /\ seen_below = FALSE

\* The inputs of the runs that do not vary them.
\* The inputs of the later runs, but for those named in skip.
InitMoreInputs(skip) ==
    /\ IF "pr_in" \in skip THEN TRUE ELSE pr_in = CHOOSE x \in PricingInputs : TRUE
    /\ IF "flag_in" \in skip THEN TRUE ELSE flag_in = <<>>
    /\ IF "fc_in" \in skip THEN TRUE ELSE fc_in = [i \in 1..WEEK_DAYS |-> 0]
    /\ IF "burst_in" \in skip THEN TRUE ELSE burst_in = <<>>

InitInputs ==
    /\ lbl_in = CHOOSE x \in LabelInputs : TRUE
    /\ csv_file = CsvRows
    /\ eff_in = [today_events |-> FALSE, fired |-> {}]
    /\ pct_in = [data |-> <<>>, pct |-> 0]
    /\ InitMoreInputs({})

Init ==
    /\ InitProcess
    /\ events_file = <<>>
    /\ events_exists = FALSE
    /\ file_mtime = 0
    /\ now = 1
    /\ ground_truth = <<>>
    /\ InitInputs

RunStep == \E d \in BOOLEAN, f \in Faults : Run(d, f)

NextLogger ==
    /\ \/ \E u \in Uuids, m \in Msgs : AppendMsg(u, m)
       \/ RunStep
    /\ UNCHANGED <<lock_vars, sse_vars, kpi_vars, adapter_vars, ext_vars>>

SpecLogger == Init /\ [][NextLogger]_vars

InitServer == Init /\ exclude = {}

TagFilters == {None} \cup {Some(x) : x \in Tags}

\* Events of single-line imports and of the writers in the snapshot runs.
SnapEvents ==
    {Event(1, "build [ops]", 1, "s1", DEFAULT_MODEL, None),
     Event(2, "Session 0123abcd", 1, "s1", DEFAULT_MODEL, None)}

\* Event store: writers from outside, loads, a rewrite, single-line imports.
NextLoad ==
    /\ \/ Tick
       \/ \E l \in InputLines : ExternalAppend(l)
       \/ ApiHealth
       \/ RenameTask("build [ops]", "deploy [web]")
       \/ \E e \in SnapEvents : Import(<<ObjLine(e)>>)
    /\ UNCHANGED <<lock_vars, sse_vars, kpi_vars, adapter_vars, ext_vars>>

SpecLoad == InitServer /\ [][NextLoad]_vars

\* Bulk import.
NextImport ==
    /\ \/ \E b \in Bodies : Import(b)
       \/ \E l \in InputLines : ExternalAppend(l)
       \/ ApiHealth
    /\ UNCHANGED <<lock_vars, sse_vars, kpi_vars, adapter_vars, ext_vars>>

SpecImport == InitServer /\ [][NextImport]_vars

\* Snapshot cache against every writer of the store.
Next ==
    /\ \/ Tick
       \/ \E e \in SnapEvents : ExternalAppend(ObjLine(e))
       \/ \E t \in TagFilters : ApiData(t)
       \/ \E e \in SnapEvents : Import(<<ObjLine(e)>>)
       \/ RenameTask("build [ops]", "deploy [web]")
    /\ UNCHANGED <<lock_vars, sse_vars, kpi_vars, adapter_vars, ext_vars>>

Spec == InitServer /\ [][Next]_vars

\* Maintenance operations on the store.
NextMaint ==
    /\ \/ \E e \in SnapEvents : ExternalAppend(ObjLine(e))
       \/ ApiHealth
       \/ \E e \in SnapEvents : RenameEvent(event_id(e), "deploy [web]")
       \/ \E c \in 1..MaxTs : Archive(c)
       \/ Clear
       \/ Restore
    /\ UNCHANGED <<lock_vars, sse_vars, kpi_vars, adapter_vars, ext_vars>>

SpecMaint == InitServer /\ [][NextMaint]_vars

\* Appenders against the handlers that rewrite the store under the lock.
NextWriters ==
    /\ \/ \E w \in Writers : WriterAppend(w)
       \/ \E op \in RenameOps \cup {"archive"} : MaintBegin(op)
       \/ MaintLoad
       \/ MaintAcquire
       \/ MaintRead
       \/ MaintWrite
       \/ MaintRelease
       \/ MaintReload
    /\ UNCHANGED <<sse_vars, kpi_vars, adapter_vars, ext_vars>>

SpecWriters == InitServer /\ [][NextWriters]_vars

\* Every maintenance handler against the server's append.
NextMaintLock ==
    /\ \/ WriterAppend("server")
       \/ \E op \in MaintOps : MaintBegin(op)
       \/ MaintLoad
       \/ MaintAcquire
       \/ MaintRead
       \/ MaintWrite
       \/ MaintRelease
       \/ MaintRemove
       \/ MaintCopy
       \/ MaintReload
    /\ UNCHANGED <<sse_vars, kpi_vars, adapter_vars, ext_vars>>

SpecMaintLock == InitServer /\ [][NextMaintLock]_vars

\* Subscribers, their connections and the broadcaster.
NextSSE ==
    /\ \/ \E s \in Subs : Subscribe(s)
       \/ \E s \in Subs, c \in {"open", "stalled", "broken"} : ConnChange(s, c)
       \/ \E s \in Subs, ok \in BOOLEAN : InitialWrite(s, ok)
       \/ \E s \in Subs : QueueGet(s)
       \/ \E s \in Subs : MessageWrite(s)
       \/ \E s \in Subs : Heartbeat(s)
       \/ \E s \in Subs : HandlerFinally(s)
       \/ \E ok \in BOOLEAN : BroadcastBuild(ok)
       \/ BroadcastEnqueue
    /\ UNCHANGED <<logger_vars, store_vars, now, server_vars, lock_vars, kpi_vars,
                   adapter_vars, ext_vars>>

SpecSSE == InitServer /\ [][NextSSE]_vars

\* The broadcaster thread is scheduled; nothing is assumed of the handler
\* threads or of the clients.
SpecSSEFair == SpecSSE /\ WF_sse_vars(BroadcastEnqueue)

\* A handler thread whose write raised goes on to its finally block.
SpecSSEHandlers == SpecSSE /\ \A s \in Subs : WF_sse_vars(HandlerFinally(s))

\* Cost figures: the store, the ground truth and the clock are drawn at the
\* start; snapshots are computed while ground-truth records go away.
InitKpi ==
    /\ InitProcess
    /\ exclude = {}
    /\ events_file \in KpiStores
    /\ events_exists = TRUE
    /\ file_mtime = 1
    /\ now = KpiNow
    /\ ground_truth \in KpiGroundTruths
    /\ InitInputs

NextKpi ==
    /\ \/ ApiKpi
       \/ \E d \in KpiGtDays : GtDrop(d)
    /\ UNCHANGED <<lock_vars, sse_vars, adapter_vars, ext_vars>>

SpecKpi == InitKpi /\ [][NextKpi]_vars

\* The adapter in its three modes, run again and again.
NextAdapters ==
    /\ \/ (\E m \in Msgs : AppendMsg("s1", m)) /\ UNCHANGED adapter_vars
       \/ \E d \in BOOLEAN, f \in Faults : SessionRun(d, f)
       \/ \E date \in UsageDates, d \in BOOLEAN, f \in OpenAIFaults : RunOpenAI(date, d, f)
       \/ \E d \in BOOLEAN, f \in CsvFaults : RunCsv(d, f)
    /\ UNCHANGED <<lock_vars, sse_vars, kpi_vars, ext_vars>>

SpecAdapters == InitServer /\ [][NextAdapters]_vars

\* Events of one anonymous session whose model changes from turn to turn.
DetEvents ==
    {Event(1, "Session 0123abcd", 1, "s1", "claude-sonnet-4-6", None),
     Event(2, "Session 0123abcd", 1, "s1", "claude-opus-4", None),
     Event(2, "build [ops]", 1, "s1", DEFAULT_MODEL, None)}

\* Snapshots of a store that other producers append to.
NextDet ==
    /\ \/ Tick
       \/ \E e \in DetEvents : ExternalAppend(ObjLine(e))
       \/ ApiData(None)
       \/ ApiHealth
    /\ UNCHANGED <<lock_vars, sse_vars, kpi_vars, adapter_vars, ext_vars>>

SpecDet == InitServer /\ [][NextDet]_vars

\* Request threads and the locks they take.
NextThreads ==
    /\ \/ \E t \in Threads, op \in Requests, hit \in BOOLEAN : ThreadBegin(t, op, hit)
       \/ \E t \in Threads : ThreadStep(t)
    /\ UNCHANGED <<logger_vars, store_vars, now, server_vars, m_pc, m_op, m_lines, m_archive,
                   appended, sse_vars, kpi_vars, adapter_vars, anno_vars, label_vars,
                   rate_vars, eff_vars, pct_vars,
                   import_vars, more_vars>>

SpecThreads == InitServer /\ [][NextThreads]_vars

\* Exports from two clients while the clock runs.
InitRate ==
    /\ InitProcess
    /\ exclude = {}
    /\ events_file = <<>>
    /\ events_exists = FALSE
    /\ file_mtime = 0
    /\ now = RATE_EPOCH
    /\ ground_truth = <<>>
    /\ InitInputs

NextRate ==
    /\ \/ RateTick
       \/ \E ip \in Clients : ApiExport(ip)
    /\ UNCHANGED <<lock_vars, sse_vars, kpi_vars, adapter_vars, thread_vars, anno_vars,
                   label_vars, eff_vars, pct_vars,
                   import_vars, more_vars>>

SpecRate == InitRate /\ [][NextRate]_vars

\* The efficiency score over the sets of rules that fire.
InitEfficiency ==
    /\ InitProcess
    /\ exclude = {}
    /\ events_file = <<>>
    /\ events_exists = FALSE
    /\ file_mtime = 0
    /\ now = 1
    /\ ground_truth = <<>>
    /\ lbl_in = CHOOSE x \in LabelInputs : TRUE
    /\ csv_file = CsvRows
    /\ eff_in \in EfficiencyInputs
    /\ pct_in = [data |-> <<>>, pct |-> 0]
    /\ InitMoreInputs({})

NextEfficiency ==
    /\ ApiEfficiency
    /\ UNCHANGED <<logger_vars, store_vars, now, server_vars, lock_vars, sse_vars, kpi_vars,
                   adapter_vars, thread_vars, anno_vars, label_vars, rate_vars, pct_vars,
                   import_vars, more_vars>>

SpecEfficiency == InitEfficiency /\ [][NextEfficiency]_vars

\* percentile over cost lists and percents.
InitPercentile ==
    /\ InitProcess
    /\ exclude = {}
    /\ events_file = <<>>
    /\ events_exists = FALSE
    /\ file_mtime = 0
    /\ now = 1
    /\ ground_truth = <<>>
    /\ lbl_in = CHOOSE x \in LabelInputs : TRUE
    /\ csv_file = CsvRows
    /\ eff_in = [today_events |-> FALSE, fired |-> {}]
    /\ pct_in \in PercentileInputs
    /\ InitMoreInputs({})

NextPercentile ==
    /\ CallPercentile
    /\ UNCHANGED <<logger_vars, store_vars, now, server_vars, lock_vars, sse_vars, kpi_vars,
                   adapter_vars, thread_vars, anno_vars, label_vars, rate_vars, eff_vars,
                   import_vars, more_vars>>

SpecPercentile == InitPercentile /\ [][NextPercentile]_vars

\* The bodies of the concurrent imports: one or two events.
ImportBodies ==
    {<<ObjLine(e)>> : e \in SnapEvents} \cup {<<ObjLine(e), ObjLine(f)>> : e, f \in SnapEvents}

\* Bulk imports served by two threads.
NextImports ==
    /\ \/ \E t \in Threads, b \in ImportBodies : ImportBegin(t, b)
       \/ \E t \in Threads : ImportWrite(t)
       \/ \E t \in Threads : ImportReload(t)
       \/ \E t \in Threads : ImportReply(t)
    /\ UNCHANGED <<logger_vars, now, _state_cache_ts, archive_file, backup, lock_vars, sse_vars,
                   kpi_vars, adapter_vars, thread_vars, anno_vars, label_vars, rate_vars,
                   eff_vars, pct_vars, more_vars>>

SpecImports == InitServer /\ [][NextImports]_vars

\* The CSV files of the csv mode.
CsvRowSet ==
    {CsvRow(1, 3, TRUE), CsvRow(2, 3, TRUE), CsvRow(1, 0, TRUE), CsvRow(0, 3, TRUE),
     CsvRow(1, -1, TRUE), CsvRow(1, 3, FALSE)}

CsvFiles == UNION {[1..n -> CsvRowSet] : n \in 0..MaxCsvRows}

InitCsv ==
    /\ InitProcess
    /\ exclude = {}
    /\ events_file = <<>>
    /\ events_exists = FALSE
    /\ file_mtime = 0
    /\ now = 1
    /\ ground_truth = <<>>
    /\ lbl_in = CHOOSE x \in LabelInputs : TRUE
    /\ csv_file \in CsvFiles
    /\ eff_in = [today_events |-> FALSE, fired |-> {}]
    /\ pct_in = [data |-> <<>>, pct |-> 0]
    /\ InitMoreInputs({})

\* The csv mode, run again and again on one file.
NextCsv ==
    /\ \E d \in BOOLEAN, f \in CsvFaults : RunCsv(d, f)
    /\ UNCHANGED <<lock_vars, sse_vars, kpi_vars, ext_vars>>

SpecCsv == InitCsv /\ [][NextCsv]_vars

\* The labels _run gives, over the session keys and configurations.
InitLabel ==
    /\ InitProcess
    /\ exclude = {}
    /\ events_file = <<>>
    /\ events_exists = FALSE
    /\ file_mtime = 0
    /\ now = 1
    /\ ground_truth = <<>>
    /\ lbl_in \in LabelInputs
    /\ csv_file = CsvRows
    /\ eff_in = [today_events |-> FALSE, fired |-> {}]
    /\ pct_in = [data |-> <<>>, pct |-> 0]
    /\ InitMoreInputs({})

NextLabel ==
    /\ LabelSession
    /\ UNCHANGED <<logger_vars, store_vars, now, server_vars, lock_vars, sse_vars, kpi_vars,
                   adapter_vars, thread_vars, anno_vars, rate_vars, eff_vars, pct_vars,
                   import_vars, more_vars>>

SpecLabel == InitLabel /\ [][NextLabel]_vars

\* Concurrent annotation requests.
NextAnno ==
    /\ \/ \E t \in Threads : AnnoBegin(t, "add", 0)
       \/ \E t \in Threads, id \in AnnoIds : AnnoBegin(t, "delete", id)
       \/ \E t \in Threads : AnnoLoad(t)
       \/ \E t \in Threads : AnnoAcquire(t)
       \/ \E t \in Threads : AnnoWrite(t)
       \/ \E t \in Threads : AnnoRelease(t)
    /\ UNCHANGED <<logger_vars, store_vars, now, server_vars, lock_vars, sse_vars, kpi_vars,
                   adapter_vars, label_vars, rate_vars, eff_vars, pct_vars,
                   import_vars, more_vars>>

SpecAnno == InitServer /\ [][NextAnno]_vars

\* The appenders against _do_archive alone.
NextArchive ==
    /\ \/ \E w \in Writers : WriterAppend(w)
       \/ MaintBegin("archive")
       \/ MaintLoad
       \/ MaintAcquire
       \/ MaintWrite
       \/ MaintRelease
       \/ MaintReload
    /\ UNCHANGED <<sse_vars, kpi_vars, adapter_vars, ext_vars>>

SpecArchive == InitServer /\ [][NextArchive]_vars


\* Two instances of the Session-Log adapter started at any time.
NextPid ==
    /\ \/ (\E m \in Msgs : AppendMsg("s1", m)) /\ UNCHANGED pid_vars
       \/ \E p \in Instances : PidStart(p)
       \/ \E p \in Instances : PidCheck(p)
       \/ \E p \in Instances, ok \in BOOLEAN : PidWrite(p, ok)
       \/ \E p \in Instances : PidRun(p)
       \/ \E p \in Instances : PidRelease(p)
    /\ UNCHANGED <<lock_vars, sse_vars, kpi_vars, adapter_vars, thread_vars, anno_vars,
                   label_vars, rate_vars, eff_vars, pct_vars, import_vars, pricing_vars,
                   flag_vars,
                   forecast_vars, burst_vars,
                   alert_vars>>

SpecPid == Init /\ [][NextPid]_vars


\* Pricing of one usage bucket, for every config table and model id.
InitPricing ==
    /\ InitProcess
    /\ exclude = {}
    /\ events_file = <<>>
    /\ events_exists = FALSE
    /\ file_mtime = 0
    /\ now = 1
    /\ ground_truth = <<>>
    /\ lbl_in = CHOOSE x \in LabelInputs : TRUE
    /\ csv_file = CsvRows
    /\ eff_in = [today_events |-> FALSE, fired |-> {}]
    /\ pct_in = [data |-> <<>>, pct |-> 0]
    /\ InitMoreInputs({"pr_in"})
    /\ pr_in \in PricingInputs

NextPricing ==
    /\ PriceBucket
    /\ UNCHANGED <<logger_vars, store_vars, now, server_vars, lock_vars, sse_vars, kpi_vars,
                   adapter_vars, thread_vars, anno_vars, label_vars, rate_vars, eff_vars,
                   pct_vars, import_vars, pid_vars, flag_vars,
                   forecast_vars, burst_vars,
                   alert_vars>>

SpecPricing == InitPricing /\ [][NextPricing]_vars


\* Events whose task ends in a digit or whose cost has two digits, appended
\* from outside and imported one at a time.
KeyEvents ==
    {Event(1, task, cost, "s1", DEFAULT_MODEL, None) : task \in {"step", "step1"},
                                                        cost \in {2, 12}}

NextIdKey ==
    /\ \/ \E e \in KeyEvents : ExternalAppend(ObjLine(e))
       \/ \E e \in KeyEvents : Import(<<ObjLine(e)>>)
       \/ ApiHealth
       \/ Tick
    /\ UNCHANGED <<lock_vars, sse_vars, kpi_vars, adapter_vars, ext_vars>>

SpecIdKey == InitServer /\ [][NextIdKey]_vars


\* The recurring and anomaly flags, for every small store.
InitFlags ==
    /\ InitProcess
    /\ exclude = {}
    /\ events_file = <<>>
    /\ events_exists = FALSE
    /\ file_mtime = 0
    /\ now = 1
    /\ ground_truth = <<>>
    /\ lbl_in = CHOOSE x \in LabelInputs : TRUE
    /\ csv_file = CsvRows
    /\ eff_in = [today_events |-> FALSE, fired |-> {}]
    /\ pct_in = [data |-> <<>>, pct |-> 0]
    /\ InitMoreInputs({"flag_in"})
    /\ flag_in \in FlagStores(MaxFlagEvents)

NextFlags ==
    /\ BuildFlags
    /\ UNCHANGED <<logger_vars, store_vars, now, server_vars, lock_vars, sse_vars, kpi_vars,
                   adapter_vars, thread_vars, anno_vars, label_vars, rate_vars, eff_vars,
                   pct_vars, import_vars, pid_vars, pricing_vars,
                   forecast_vars, burst_vars,
                   alert_vars>>

SpecFlags == InitFlags /\ [][NextFlags]_vars


\* The forecast, for every week of daily totals.
InitForecast ==
    /\ InitProcess
    /\ exclude = {}
    /\ events_file = <<>>
    /\ events_exists = FALSE
    /\ file_mtime = 0
    /\ now = 1
    /\ ground_truth = <<>>
    /\ lbl_in = CHOOSE x \in LabelInputs : TRUE
    /\ csv_file = CsvRows
    /\ eff_in = [today_events |-> FALSE, fired |-> {}]
    /\ pct_in = [data |-> <<>>, pct |-> 0]
    /\ InitMoreInputs({"fc_in"})
    /\ fc_in \in WeeklyCosts

NextForecast ==
    /\ BuildForecast
    /\ UNCHANGED <<logger_vars, store_vars, now, server_vars, lock_vars, sse_vars, kpi_vars,
                   adapter_vars, thread_vars, anno_vars, label_vars, rate_vars, eff_vars,
                   pct_vars, import_vars, pid_vars, pricing_vars, flag_vars, burst_vars,
                   alert_vars>>

SpecForecast == InitForecast /\ [][NextForecast]_vars


\* The burst analysis, for every small day and the day of 20 messages.
InitBursts ==
    /\ InitProcess
    /\ exclude = {}
    /\ events_file = <<>>
    /\ events_exists = FALSE
    /\ file_mtime = 0
    /\ now = 1
    /\ ground_truth = <<>>
    /\ lbl_in = CHOOSE x \in LabelInputs : TRUE
    /\ csv_file = CsvRows
    /\ eff_in = [today_events |-> FALSE, fired |-> {}]
    /\ pct_in = [data |-> <<>>, pct |-> 0]
    /\ InitMoreInputs({"burst_in"})
    /\ burst_in \in BurstDays(MaxBurstMsgs)

NextBursts ==
    /\ AnalyseBursts
    /\ UNCHANGED <<logger_vars, store_vars, now, server_vars, lock_vars, sse_vars, kpi_vars,
                   adapter_vars, thread_vars, anno_vars, label_vars, rate_vars, eff_vars,
                   pct_vars, import_vars, pid_vars, pricing_vars, flag_vars, forecast_vars,
                   alert_vars>>

SpecBursts == InitBursts /\ [][NextBursts]_vars


\* The threshold webhook while the cost and the configuration change.
NextAlert ==
    /\ \/ \E built \in BOOLEAN : AlertCheck(built)
       \/ \E c \in 0..MaxTodayCost : CostChange(c)
       \/ \E cfg \in AlertConfigs : ConfigChange(cfg)
    /\ UNCHANGED <<logger_vars, store_vars, now, cache_vars, _state_cache, _state_cache_ts,
                   archive_file, backup, lock_vars, sse_vars, kpi_vars,
                   adapter_vars, thread_vars, anno_vars, label_vars, rate_vars, eff_vars,
                   pct_vars, import_vars, pid_vars, pricing_vars, flag_vars, forecast_vars,
                   burst_vars>>

SpecAlert == InitServer /\ [][NextAlert]_vars

\* ---- Session-Log adapter: claims -------------------------------------------
\* A line of a session file that has a nonzero cost and a parseable timestamp.
Eligible(msg) == msg.total # 0 /\ parse_ts(msg.timestamp) # None

\* A record stamped with the epoch itself (timestamp 0.0) is the subject of C1
\* and C3; C2 and C4 are stated for the other records.
Dated(msg) == Eligible(msg) /\ parse_ts(msg.timestamp)[1] # 0

\* The persisted cursor of uuid lies at or past the timestamp of msg.
CursorPast(uuid, msg) ==
    /\ state_file[uuid] # None
    /\ parse_ts(msg.timestamp)[1] <= state_file[uuid][1]

\* C1: re-running the adapter when no session file gained a record since the
\* previous non-dry run appends nothing to the event store and leaves every
\* persisted cursor unchanged (stated for histories without I/O failures).
C1_RerunAppendsNothing ==
    [][(~gained /\ ~faulted /\ RunStep)
         => (events_file' = events_file /\ state_file' = state_file)]_vars

\* C2: once a non-dry run has completed after the last append to the session
\* files, every record with nonzero cost and a parseable timestamp of a
\* processed session has been written to the event store exactly once, and no
\* record is ever written twice (stated for histories without I/O failures
\* and for records not stamped with the epoch).
C2_ExactlyOnce ==
    ~faulted =>
       /\ \A u \in Uuids : \A i \in 1..Len(jsonl[u]) :
              Dated(jsonl[u][i]) => emitted[u][i] <= 1
       /\ ~gained => \A u \in Uuids \ exclude : \A i \in 1..Len(jsonl[u]) :
                        Dated(jsonl[u][i]) => emitted[u][i] = 1

\* Maximum timestamp among the emitted records of uuid (None when none was).
MaxEmitted(uuid) ==
    LET E == {parse_ts(jsonl[uuid][i].timestamp)[1] :
                 i \in {j \in 1..Len(jsonl[uuid]) : emitted[uuid][j] > 0}}
    IN  IF E = {} THEN None ELSE Some(CHOOSE t \in E : \A x \in E : x <= t)

\* C3: after any number of non-dry runs each session's persisted cursor is the
\* maximum timestamp among the records emitted for it, and no cursor ever
\* decreases (stated for histories without I/O failures).
C3_CursorIsMaxEmitted ==
    /\ [](~faulted => \A u \in Uuids : state_file[u] = MaxEmitted(u))
    /\ [][~faulted' => \A u \in Uuids :
             state_file[u] # None =>
                 (state_file'[u] # None /\ state_file'[u][1] >= state_file[u][1])]_vars

\* Cursors and store agree: a record is behind the cursor exactly when its
\* event is in the store.
Consistent ==
    \A u \in Uuids : \A i \in 1..Len(jsonl[u]) :
        Dated(jsonl[u][i]) => (CursorPast(u, jsonl[u][i]) <=> emitted[u][i] > 0)

\* C4: a run that fails at any step leaves the persisted cursors and the
\* event store consistent with each other.
C4_FailedRunKeepsConsistency ==
    [][(Consistent /\ \E f \in Faults \ {"ok"} : Run(FALSE, f)) => Consistent']_vars

\* ---- Event store and snapshot: claims ----------------------------------------
\* The JSON objects of the store file as stored, in file order.
StoredEvents == patch_read(events_file)

\* A batch of well-formed events with pairwise distinct ids.
WellFormedBatch(b) ==
    /\ \A i \in 1..Len(b) : b[i].kind = "obj"
    /\ \A i, j \in 1..Len(b) : event_id(b[i].ev) = event_id(b[j].ev) => i = j

\* C5: after a bulk import that imported every event of a batch of K
\* well-formed events with pairwise distinct ids, importing the same batch
\* again imports nothing, skips K duplicates and leaves the store unchanged.
C5_ReimportSkipsAll ==
    (/\ resp.op = "import"
     /\ resp.status = 200
     /\ WellFormedBatch(resp.body)
     /\ resp.imported = Len(resp.body))
    => LET c == import_events(resp.body)
       IN  /\ ~c.r1.raised
           /\ c.acc.new_events = <<>>
           /\ c.acc.dupes = Len(resp.body)

\* The step read the store file anew: a load that missed the cache, or the
\* forced load that ends a bulk rename.
CacheMiss == _events_cache = None \/ (IF events_exists THEN file_mtime ELSE 0) # _events_mtime

ImportedStep == resp'.op = "import" /\ resp'.status = 200 /\ resp'.imported > 0

LoadedStep ==
    \/ resp'.op = "health" /\ resp'.status = 200 /\ CacheMiss
    \/ resp'.op = "rename_task" /\ resp'.status = 200
    \/ ImportedStep

\* The lines the import of this step wrote carry the id event_id gives them.
ImportedIds ==
    \A i \in (Len(events_file) - resp.imported + 1)..Len(events_file) :
        events_file[i].ev.id = Some(event_id(events_file[i].ev))

SameKey(a, b) == a.ts = b.ts /\ a.task = b.task /\ a.cost_usd = b.cost_usd

\* The loaded events carry, for every stored line without an id, the id
\* event_id gives that line, and lines with equal (ts, task, cost_usd) carry
\* equal ids.
IdsAgree ==
    LET raw == StoredEvents
        evs == _events_cache[1]
    IN  ~_events_demo_mode =>
          /\ Len(evs) = Len(raw)
          /\ \A i \in 1..Len(raw) : raw[i].id = None => evs[i].id = Some(event_id(raw[i]))
          /\ \A i, j \in 1..Len(raw) :
                (raw[i].id = None /\ raw[j].id = None /\ SameKey(raw[i], raw[j]))
                    => evs[i].id = evs[j].id

\* C6: the id Load attaches to a stored event without an id is the id
\* event_id computes for that stored line, a function of (ts, task, cost_usd)
\* only: lines that agree on the three fields get equal ids whatever their
\* other fields, and the id bulk import stores with a line is that id too.
C6_LoadIdIsEventId ==
    [][(LoadedStep => IdsAgree') /\ (ImportedStep => ImportedIds')]_vars

\* Two stored lines that differ in their session only were loaded and carry
\* the same id.
C6_Witness ==
    /\ resp.op = "health" /\ resp.status = 200
    /\ _events_cache # None /\ ~_events_demo_mode
    /\ Len(_events_cache[1]) = Len(StoredEvents)
    /\ \E i, j \in 1..Len(StoredEvents) :
          /\ StoredEvents[i].session # StoredEvents[j].session
          /\ SameKey(StoredEvents[i], StoredEvents[j])
          /\ _events_cache[1][i].id = _events_cache[1][j].id

\* What a load returns agrees with the stored lines, in file order.
ReturnsStored ==
    LET raw == StoredEvents
        evs == _events_cache[1]
    IN  ~_events_demo_mode =>
          /\ Len(evs) = Len(raw)
          /\ \A i \in 1..Len(raw) :
                evs[i].ts = raw[i].ts /\ evs[i].cost_usd = raw[i].cost_usd
                   /\ evs[i].session = raw[i].session

\* C7: the most recent Load returns exactly the well-formed lines of the
\* store in file order, and malformed_lines is the number of malformed lines
\* that Load met (0 again once the store holds none).
C7_LoadReportsStore ==
    [][LoadedStep => (ReturnsStored' /\ _malformed_count' = count_bad(events_file'))]_vars

\* C8: Load never fails because of the content of a line.
C8_LoadNeverFails == resp.op = "health" => resp.status = 200

\* C9: a build_state call that starts after a write to the store has
\* completed returns a snapshot of the store as written, also within the
\* snapshot TTL.
C9_FreshAfterWrite ==
    (resp.op = "data" /\ resp.status = 200) =>
        LET r     == load_events(File, Globals, TRUE)
            fresh == snapshot(r.events, r.demo_mode, r.G.malformed, now)
        IN  /\ _state_cache[1].total_events = fresh.total_events
            /\ _state_cache[1].tags_summary = fresh.tags_summary

\* C10: serving a tag-filtered view leaves the cached snapshot with the full
\* list of recent events.
C10_CachedRecentComplete ==
    _state_cache # None =>
        Len(_state_cache[1].recent) =
            (IF _state_cache[1].total_events < max_events_display
             THEN _state_cache[1].total_events ELSE max_events_display)

\* ---- Writers and maintenance: claims ----------------------------------------
\* The timestamps of the events held by the store or by the archive.
KeptTs == {events_file[i].ev.ts : i \in 1..Len(events_file)}
              \cup {archive_file[i].ts : i \in 1..Len(archive_file)}

\* C11: whatever the interleaving of the appenders with a rename or an
\* archive, every event a writer appended is in the store (or was moved to
\* the archive) afterwards.
C11_NoAppendLost == appended \subseteq KeptTs

\* The step changed or removed the events file.
FileModified ==
    events_file' # events_file \/ events_exists' # events_exists \/ file_mtime' # file_mtime

\* C12: a step of a maintenance handler that modifies the events file is
\* taken while the handler holds _events_write_lock, and the handler ends
\* with the event cache reloaded from the file.
C12_MaintenanceHoldsLock ==
    [][/\ (resp'.op \in MaintOps /\ FileModified) => _events_write_lock = "maint"
       /\ (resp'.op \in MaintOps /\ resp'.step = "done" /\ resp'.status = 200)
              => _events_cache' = Some(load_events(File, Globals, TRUE).events)']_vars

\* ---- SSE: claims -----------------------------------------------------------
\* The step is the enqueue of a tick.
EnqueueStep == bc_pc = "enqueue" /\ bc_pc' = "sleep"

\* C13: a tick never waits on a subscriber: once the snapshot is built the
\* tick completes whatever the handlers and clients do, and its enqueue puts
\* the message at the end of the queue of every subscriber, drained or not.
C13_TickNeverWaits ==
    /\ [][EnqueueStep =>
            \A i \in 1..Len(_sse_clients) :
                sse_queue'[_sse_clients[i]] = Append(sse_queue[_sse_clients[i]], bc_msg[1])]_vars
    /\ (bc_pc = "enqueue") ~> (bc_pc = "sleep")

\* A subscriber that stopped reading holds two undelivered ticks while the
\* other one has been delivered the second tick.
C13_Witness ==
    /\ conn["c1"] = "stalled" /\ Len(sse_queue["c1"]) >= 2
    /\ InSeq(TickMsg(2), delivered["c2"])

\* A capacity any bounded queue would respect after MaxTicks ticks.
QueueCapacity == MaxTicks - 1

\* C14: the broadcaster drops a subscriber whose queue is full, so that no
\* queue ever holds more than a fixed capacity of undelivered snapshots.
C14_QueueBounded == \A s \in Subs : Len(sse_queue[s]) <= QueueCapacity

IsPrefix(a, b) == Len(a) <= Len(b) /\ SubSeq(b, 1, Len(a)) = a

\* C15: the first message written to a subscriber is the snapshot of
\* subscription time; after it come the tick messages enqueued since the
\* subscriber registered, in the order of the ticks and with none skipped,
\* and while the handler runs every other enqueued tick is still waiting.
C15_SnapshotThenTicksInOrder ==
    \A s \in Subs :
        /\ delivered[s] # <<>> =>
              /\ delivered[s][1].kind = "initial"
              /\ IsPrefix(Tail(delivered[s]), enqueued[s])
        /\ delivered[s] = <<>> => h_pc[s] \notin {"loop", "writing"}
        /\ h_pc[s] \in {"loop", "writing"} =>
              enqueued[s] = Tail(delivered[s]) \o h_msg[s] \o sse_queue[s]

\* A subscriber registered before the first snapshot was written, a tick was
\* enqueued in between, and the subscriber has received snapshot and ticks.
C15_Witness ==
    \E s \in Subs :
        /\ Len(delivered[s]) >= 3
        /\ delivered[s][1].n >= delivered[s][2].n

TrackedOn(day) == SumCost(SelectSeq(StoredEvents, LAMBDA e : iso_day(e.ts) = day))

\* The ground-truth cost of a day that has a record, else its tracked sum.
DayCost(day) == IF day \in DOMAIN ground_truth THEN ground_truth[day] ELSE TrackedOn(day)

\* The step computed the cost figures.
KpiStep == resp'.op = "kpi"

C18_WeekMonthFallBackPerDay ==
    [][KpiStep =>
          /\ kpi'[1].week_cost = SumFn([d \in (KPI_TODAY - 6)..KPI_TODAY |-> DayCost(d)])
          /\ kpi'[1].month_cost =
                SumFn([d \in {x \in (KPI_TODAY - 6)..KPI_TODAY : iso_month(x) = iso_month(KPI_TODAY)}
                          |-> DayCost(d)])]_vars

\* ---- Adapter modes: claims ----------------------------------------------------
\* The step is an adapter invocation.
AdapterStep == adapter_log'.n > adapter_log.n

\* A completed invocation that was no dry run.
Completed(inv) == inv.fault = "ok" /\ ~inv.dry_run

\* C19: running the Remote-Usage-API adapter for a date again, right after a
\* completed run for the same date, appends no event to the store.
C19_OpenAIRerunAppendsNothing ==
    [][(/\ AdapterStep
        /\ adapter_log.mode = "openai" /\ Completed(adapter_log)
        /\ adapter_log'.mode = "openai" /\ Completed(adapter_log')
        /\ adapter_log'.date = adapter_log.date)
          => events_file' = events_file]_vars

\* The invocation met one of the failures of the claim.
FailedRun(inv) == inv.fault \in {"fetch_fail", "csv_missing", "append_fail"}

\* C20: every adapter invocation ends with a run summary, whose status is
\* not that of a successful run when the invocation failed.
C20_EveryRunLeavesSummary ==
    [][AdapterStep =>
          /\ last_run_file' # None
          /\ FailedRun(adapter_log') => last_run_file'[1].status # "ok"]_vars

\* ---- Snapshot determinism: claims -------------------------------------------
\* The globals of load_events in a process that has loaded nothing yet.
FreshGlobals ==
    [cache |-> None, mtime |-> 0, demo |-> FALSE, malformed |-> 0,
     labels |-> [l \in AnonLabels |-> None]]

\* The snapshot a process that has loaded nothing yet computes of the store.
FreshSnapshot ==
    LET r == load_events(File, FreshGlobals, TRUE)
    IN  snapshot(r.events, r.demo_mode, r.G.malformed, now)

\* The data request of this step computed its snapshot from the file: the
\* cached snapshot had expired and the events were read anew.
ComputedStep ==
    /\ resp'.op = "data" /\ resp'.status = 200 /\ resp'.tag = None
    /\ ~(_state_cache # None /\ (now - _state_cache_ts) < STATE_TTL_SEC * TicksPerSec)
    /\ CacheMiss

\* C21: a snapshot computed from the store is the snapshot a process that
\* loaded no store before computes from the same store at the same time:
\* nothing carried over from earlier loads changes it.
C21_SnapshotIndependentOfHistory ==
    [][ComputedStep => _state_cache'[1] = FreshSnapshot]_vars

\* ---- Read order: claims -----------------------------------------------------
\* The writers stamp their events 1, 2, ... in the order of the appends: the
\* events are in append order when their timestamps ascend.
InAppendOrder(evs) == \A i, j \in 1..Len(evs) : i < j => evs[i].ts < evs[j].ts

\* C22: after any appends (the server's are those of an import), renames and
\* archives, however interleaved, a Load of the store returns the events
\* that are still in it in the order in which they were appended.
C22_LoadKeepsAppendOrder ==
    LET r == load_events(File, Globals, TRUE)
    IN  (~r.raised /\ ~r.demo_mode) => InAppendOrder(r.events)

\* A rename rewrote a store of two events and the handler's Load returned
\* both, the renamed one first.
C22_Witness ==
    /\ resp.op \in RenameOps /\ resp.step = "done"
    /\ _events_cache # None /\ ~_events_demo_mode
    /\ Len(_events_cache[1]) = 2
    /\ _events_cache[1][1].task = RENAME_NEW
    /\ _events_cache[1][1].ts < _events_cache[1][2].ts

\* ---- Locks: claims ----------------------------------------------------------
\* C23: no thread holds two of the server's locks at the same time.
C23_LocksNeverNested == \A t \in Threads : Cardinality(Held(t)) <= 1

\* ---- Annotations: claims ------------------------------------------------------
\* C24: once the annotation requests in flight are answered, the stored
\* annotations reflect every answered update: each added annotation that was
\* not deleted is stored and no deleted one is.
C24_NoAnnotationUpdateLost ==
    (\A t \in Threads : a_pc[t] = "idle") =>
        /\ (anno_added \ anno_deleted) \subseteq annotations_file
        /\ anno_deleted \cap annotations_file = {}

\* ---- Session labels: claims --------------------------------------------------
\* A job-registry name for a uuid embedded in the key.
RegistryName(k, cron_names) ==
    FirstThat(k.uuids, LAMBDA uid : uid \in DOMAIN cron_names)

\* Some job id only contains, or is contained in, a uuid of the key.
PartialOnly(k, cron_names) ==
    /\ RegistryName(k, cron_names) = None
    /\ \E i \in 1..Len(k.uuids), cron_id \in DOMAIN cron_names :
          InStr(k.uuids[i], cron_id) \/ InStr(cron_id, k.uuids[i])

\* The label of the first resolver that succeeds, in the order: override,
\* alias table, job-registry name, primary session, content-derived label,
\* generic short-id label.
FirstSuccess(in) ==
    IF in.k.key \in DOMAIN in.overrides THEN in.overrides[in.k.key]
    ELSE IF in.k.key \in DOMAIN SESSION_NAMES THEN SESSION_NAMES[in.k.key]
    ELSE IF RegistryName(in.k, in.cron_names) # None
    THEN in.cron_names[RegistryName(in.k, in.cron_names)[1]]
    ELSE IF in.k.main /\ ~in.k.cron THEN "KIRA"
    ELSE IF in.smart # None THEN in.smart[1]
    ELSE "Session " \o in.k.short

\* C25: the label of a session is that of the first resolver that succeeds;
\* a configured override is the final label whatever its text, and a
\* job-registry name comes before the primary-session heuristic. (Keys for
\* which the registry holds only a partly matching job id are left open.)
C25_FirstResolverWins ==
    (lbl_out # None /\ ~PartialOnly(lbl_in.k, lbl_in.cron_names))
        => lbl_out[1] = FirstSuccess(lbl_in)

\* ---- CSV adapter: claims ------------------------------------------------------
\* A row that parses and has a nonzero cost.
GoodRow(row) == row.date # 0 /\ row.cost # -1 /\ row.cost # 0 /\ row.tokens_ok

GoodRows == SelectSeq(csv_file, GoodRow)

\* The events the step appended to the store.
AppendedLines == SubSeq(events_file', Len(events_file) + 1, Len(events_file'))

CsvRunStep == AdapterStep /\ adapter_log'.mode = "csv" /\ Completed(adapter_log')

\* C26: a completed csv run appends exactly one event per row that parses and
\* has a nonzero cost, in the order of the rows, whatever the store already
\* holds (so a second run on K such rows leaves 2K events), and the rows it
\* read are the events it emitted plus the rows it skipped.
C26_CsvOneEventPerRowNoDedup ==
    [][CsvRunStep =>
          /\ Len(events_file') = Len(events_file) + Len(GoodRows)
          /\ \A i \in 1..Len(GoodRows) :
                /\ AppendedLines[i].kind = "obj"
                /\ AppendedLines[i].ev.ts = GoodRows[i].date * SECONDS_PER_DAY
                /\ AppendedLines[i].ev.cost_usd = GoodRows[i].cost
          /\ csv_report'[1].rows_read = Len(csv_file)
          /\ csv_report'[1].rows_read = csv_report'[1].events + csv_report'[1].rows_skipped
          /\ csv_report'[1].events = Len(GoodRows)]_vars

\* Two completed csv runs on a file with one importable row and two rows
\* that are skipped (one of cost zero) left two events in the store.
C26_Witness ==
    /\ adapter_log.n = 2 /\ adapter_log.mode = "csv" /\ Completed(adapter_log)
    /\ Len(GoodRows) = 1
    /\ Len(csv_file) = 2
    /\ \E i \in 1..Len(csv_file) : csv_file[i].cost = 0
    /\ Len(events_file) = 2 * Len(GoodRows)
    /\ csv_report = Some([rows_read |-> 2, rows_skipped |-> 1, events |-> 1])

\* ---- Rate limiter: claims ----------------------------------------------------
\* The step is an export request (the clock stands still during a request).
ExportStep == resp'.op = "export" /\ now' = now

\* The window of the key is over: no call was allowed yet, or the last
\* allowed call is at least the interval back.
WindowOver(key) ==
    rate_allowed[key] = None
        \/ now - rate_allowed[key][1] >= EXPORT_INTERVAL_SEC * TicksPerSec

\* C27: a call for a key is allowed exactly when no call for that key was
\* allowed before or the last allowed one is at least interval_sec back: the
\* first call is allowed, allowed calls are at least the interval apart,
\* denied calls and calls on other keys do not move the window; a denied
\* export is answered 429.
C27_RateLimitWindow ==
    [][ExportStep =>
          /\ (resp'.status # 429) <=> WindowOver(resp'.key)
          /\ \A k \in RateKeys \ {resp'.key} : _rate_limits'[k] = _rate_limits[k]]_vars

\* A client was denied an export, then allowed one again once the interval
\* since its last allowed export had passed, while the other client's export
\* in between was allowed.
C27_Witness ==
    /\ resp.op = "export" /\ resp.status = 200
    /\ rate_denied[resp.key]
    /\ rate_allowed[resp.key] = Some(now)
    /\ \E k \in RateKeys \ {resp.key} :
          rate_allowed[k] # None /\ rate_allowed[k][1] < now /\ ~rate_denied[k]

\* ---- Efficiency score: claims ------------------------------------------------
\* The number of returned rules of a severity.
RulesOf(severity) ==
    Cardinality({i \in 1..Len(eff_out[1].rules) : eff_out[1].rules[i].severity = severity})

WeightSum == 20 * RulesOf("high") + 10 * RulesOf("medium") + 5 * RulesOf("low")

\* C28: the score is max(0, 100 - (20 per high, 10 per medium, 5 per low
\* rule in the result)), it lies in 0..100, and the grade is A from 90, B
\* from 75, C from 60, D from 40 and F below.
C28_ScoreAndGrade ==
    eff_out # None =>
        LET score == eff_out[1].score
            grade == eff_out[1].grade
        IN  /\ score = (IF 100 - WeightSum > 0 THEN 100 - WeightSum ELSE 0)
            /\ score \in 0..100
            /\ (grade = "A") <=> score >= 90
            /\ (grade = "B") <=> (score >= 75 /\ score < 90)
            /\ (grade = "C") <=> (score >= 60 /\ score < 75)
            /\ (grade = "D") <=> (score >= 40 /\ score < 60)
            /\ (grade = "F") <=> score < 40

\* Rules of all three severities fired on a day with events and the grade
\* is D.
C28_Witness ==
    /\ eff_out # None /\ eff_in.today_events
    /\ RulesOf("high") >= 1 /\ RulesOf("medium") >= 2 /\ RulesOf("low") >= 2
    /\ eff_out[1].score < 60 /\ eff_out[1].grade = "D"

\* ---- percentile: claims --------------------------------------------------------
\* The i-th smallest value of the list: fewer than i values lie below it and
\* at least i values do not exceed it.
NthSmallest(i) ==
    CHOOSE v \in {pct_in.data[j] : j \in 1..Len(pct_in.data)} :
        /\ Cardinality({j \in 1..Len(pct_in.data) : pct_in.data[j] < v}) < i
        /\ Cardinality({j \in 1..Len(pct_in.data) : pct_in.data[j] <= v}) >= i

\* 100 times the rank (n - 1) * pct / 100, its whole part and the rest.
Rank100 == (Len(pct_in.data) - 1) * pct_in.pct
RankFloor == Rank100 \div 100
RankFrac == Rank100 % 100

\* C29: for a nonempty list percentile returns the linear interpolation
\* between the two neighbours of the sorted list at rank (n-1)*pct/100 (in
\* hundredths: the lower neighbour weighted 100 - f and the upper f, for the
\* fraction f of the rank), so pct = 0 gives the minimum, pct = 100 the
\* maximum and p50 of 1..10 is 5.5; for the empty list it returns 0.
C29_PercentileInterpolates ==
    pct_out # None =>
        IF pct_in.data = <<>> THEN pct_out[1] = 0
        ELSE /\ pct_out[1] =
                   IF RankFrac = 0 THEN 100 * NthSmallest(RankFloor + 1)
                   ELSE (100 - RankFrac) * NthSmallest(RankFloor + 1)
                            + RankFrac * NthSmallest(RankFloor + 2)
             /\ pct_in.pct = 0 => pct_out[1] = 100 * NthSmallest(1)
             /\ pct_in.pct = 100 => pct_out[1] = 100 * NthSmallest(Len(pct_in.data))
             /\ (pct_in.data = <<1, 2, 3, 4, 5, 6, 7, 8, 9, 10>> /\ pct_in.pct = 50)
                    => pct_out[1] = 550

\* p50 of 1..10 was computed, between the fifth and the sixth value.
C29_Witness ==
    /\ pct_in = [data |-> <<1, 2, 3, 4, 5, 6, 7, 8, 9, 10>>, pct |-> 50]
    /\ pct_out = Some(550)

\* ---- Concurrent imports: claims ------------------------------------------------
\* The ids of the events in the store.
StoredIds == {events_file[i].ev.id : i \in 1..Len(events_file)}

\* C30: however the import requests interleave, no two events of the store
\* carry the same id, and once the requests are answered their imported
\* counts add up to the number of distinct ids they brought into the store.
C30_ConcurrentImportsDedup ==
    /\ \A i, j \in 1..Len(events_file) : i # j => events_file[i].ev.id # events_file[j].ev.id
    /\ (\A t \in Threads : i_pc[t] = "idle") => imported_total = Cardinality(StoredIds)

\* ---- _do_archive against appends: claims -----------------------------------
\* The timestamps of the events in the store and in the archive file.
StoreTs == {events_file[i].ev.ts : i \in 1..Len(events_file)}
ArchiveTs == {archive_file[i].ts : i \in 1..Len(archive_file)}

\* C31: however _do_archive interleaves with the appends, every appended
\* event is in exactly one of the store and the archive file, and the archive
\* file holds only events below the cutoff.
C31_ArchivePartitionsEvents ==
    /\ \A ts \in appended : (ts \in StoreTs) # (ts \in ArchiveTs)
    /\ \A ts \in ArchiveTs : ts < ARCHIVE_CUTOFF

\* ---- PID lock: claims ----------------------------------------------------------
\* The instances past acquire_pid_lock and not yet through _run.
PastLock == {p \in Instances : p_pc[p] = "run"}

\* C32: at most one instance of the Session-Log adapter is past the PID lock
\* at any time.
C32_OneInstancePastPidLock == Cardinality(PastLock) <= 1

\* ---- Demo fallback: claims ------------------------------------------------------
\* The event is one of the bundled demo dataset (no append and no import of
\* the runs carries its task or session).
IsDemoEvent(e) ==
    \E i \in 1..Len(DEMO_FILE) :
        /\ e.ts = DEMO_FILE[i].ts
        /\ e.task = DEMO_FILE[i].task
        /\ e.session = DEMO_FILE[i].session

\* C33: no event of the demo dataset is ever in the store file or in the
\* archive file, whatever operations ran.
C33_DemoNeverPersisted ==
    /\ \A i \in 1..Len(events_file) :
          events_file[i].kind = "obj" => ~IsDemoEvent(events_file[i].ev)
    /\ \A i \in 1..Len(archive_file) : ~IsDemoEvent(archive_file[i])

\* ---- Pricing of a usage bucket: claims -------------------------------------------
\* The keys of the pricing table that are a prefix of the model id.
PrefixKeys(table, model_id) ==
    {table[i].key : i \in {k \in 1..Len(table) : startswith(model_id, table[k].key)}}

\* C34: a usage bucket is priced with the entry of the pricing table whose
\* key is the longest key that is a prefix of the bucket's model id, and with
\* the gpt-4o entry when no key is a prefix.
C34_LongestPrefixPricing ==
    pr_out # None =>
        LET table == pricing_map(pr_in.cfg)
            keys  == PrefixKeys(table, pr_in.entry.snapshot_id)
            used  == pr_out[1].pricing
        IN  /\ keys # {} => /\ used.key \in keys
                            /\ \A k \in keys : Len(k) <= Len(used.key)
            /\ keys = {} => used.key = GPT_4O
            /\ pr_out[1].cost_usd = bucket_cost(used, pr_in.entry)

\* ---- Id keys: claims ---------------------------------------------------------------
\* C35: an import of one event is answered as a duplicate only when the store
\* holds an event with the same (ts, task, cost_usd), and two stored events
\* with different (ts, task, cost_usd) have different id keys.
C35_DistinctEventsDistinctIds ==
    /\ (resp.op = "import" /\ resp.status = 200 /\ resp.skipped_dupes > 0)
          => \E i \in 1..Len(events_file) : SameKey(events_file[i].ev, resp.body[1].ev)
    /\ \A i, j \in 1..Len(events_file) :
          ~SameKey(events_file[i].ev, events_file[j].ev)
              => event_id(events_file[i].ev) # event_id(events_file[j].ev)

\* ---- Efficiency score, the standing rules: claims ----------------------------------
\* The rule list holds a rule with this id and severity.
HasRule(rules, id, severity) ==
    \E i \in 1..Len(rules) : rules[i].id = id /\ rules[i].severity = severity

\* C36: on a day with events the rule list holds tri_model_routing (medium)
\* and daily_restart (low) whatever else fired, so the score is at most 85
\* and the grade is not A; the score is 100 with grade A exactly on a day
\* without events.
C36_StandingRulesCapScore ==
    eff_out # None =>
        LET out == eff_out[1]
        IN  /\ eff_in.today_events =>
                 /\ HasRule(out.rules, "tri_model_routing", "medium")
                 /\ HasRule(out.rules, "daily_restart", "low")
                 /\ out.score <= 85
                 /\ out.grade # "A"
            /\ ~eff_in.today_events => (out.score = 100 /\ out.grade = "A" /\ out.rules = <<>>)
            /\ out.score = 100 => ~eff_in.today_events

\* A day with events on which no tested rule fired was scored: 85, grade B.
C36_Witness ==
    /\ eff_out # None
    /\ eff_in.today_events
    /\ eff_in.fired = {}
    /\ eff_out[1].score = 85
    /\ eff_out[1].grade = "B"

\* ---- Recurring tasks and anomalies: claims ------------------------------------------
\* The events of the store that carry the task label of e.
SameTask(e) == SelectSeq(flag_in, LAMBDA x : x.task = e.task)

\* The cost of e exceeds 5 times the mean positive cost of its task over the
\* whole store, and the floor of 2.0.
CostSpike(e) ==
    LET cs == SelectSeq(SameTask(e), LAMBDA x : x.cost_usd > 0)
    IN  cs # <<>> /\ e.cost_usd * Len(cs) > 5 * SumCost(cs) /\ e.cost_usd > 2

\* C37: in a snapshot, an event is flagged recurring exactly when its task
\* label occurs in at least 3 events of the store, flagged as an anomaly
\* exactly when its cost is a spike for its task, and an event of today is in
\* the anomaly list exactly when its row of the recent list is flagged.
C37_RecurringAndAnomalyFlags ==
    flag_out # None =>
        \A i \in 1..Len(flag_in) :
            LET e   == flag_in[i]
                row == flag_out[1].recent_tasks[i]
            IN  /\ row.is_recurring = (Len(SameTask(e)) >= 3)
                /\ row.anomaly = CostSpike(e)
                /\ e.today => (row.anomaly = (e.id \in flag_out[1].anomaly_ids))

\* ---- Forecast: claims ------------------------------------------------------------------
\* The line a + b*x through the points (0..6, totals) that the normal
\* equations of least squares determine, sum(y - a - b*x) = 0 and
\* sum(x*(y - a - b*x)) = 0, a and b as fractions over LineDen.
LineDen == 4 * WEEK_DAYS
WeekXs == [i \in 1..WEEK_DAYS |-> i - 1]
Residuals(a, b) == [i \in 1..WEEK_DAYS |-> fc_in[i] * LineDen - a - b * WeekXs[i]]
NormalEquations(a, b) ==
    /\ sum_products(ones(WEEK_DAYS), Residuals(a, b)) = 0
    /\ sum_products(WeekXs, Residuals(a, b)) = 0
InterceptFor(b) ==
    (LineDen * sum_products(ones(WEEK_DAYS), fc_in) - b * sum_products(ones(WEEK_DAYS), WeekXs))
        \div WEEK_DAYS
LsSlope ==
    CHOOSE b \in (-30 * MaxDailyTotal)..(21 * MaxDailyTotal) : NormalEquations(InterceptFor(b), b)

\* The value of that line on day x, over LineDen.
LineAt(b, x) == InterceptFor(b) + b * x

\* C38: each of the three forecast values is the least-squares line through
\* (0..6, totals) on days 7, 8, 9, to the nearest 1/10000 and at least 0; for
\* seven equal totals c all three are c.
C38_ForecastIsLeastSquares ==
    fc_out # None =>
        LET b == LsSlope
        IN  /\ \A i \in 1..FORECAST_DAYS :
                  LET line == LineAt(b, WEEK_DAYS + i - 1)
                      diff == fc_out[1][i] * LineDen - line * COST_UNITS
                  IN  IF line <= 0 THEN fc_out[1][i] = 0
                      ELSE 2 * diff <= LineDen /\ -2 * diff <= LineDen
            /\ (\A i \in 1..WEEK_DAYS : fc_in[i] = fc_in[1])
                  => \A i \in 1..FORECAST_DAYS : fc_out[1][i] = fc_in[1] * COST_UNITS

\* Seven totals of 10 were forecast: three times 10.
C38_Witness ==
    /\ fc_out # None
    /\ fc_in = [i \in 1..WEEK_DAYS |-> MaxDailyTotal]
    /\ fc_out[1] = [i \in 1..FORECAST_DAYS |-> MaxDailyTotal * COST_UNITS]

\* ---- Burst density: claims ---------------------------------------------------------------
\* The timestamps of today's primary-session messages.
KiraTs == {burst_in[i].ts : i \in {k \in 1..Len(burst_in) : burst_in[k].task = "KIRA"}}

\* The messages that start a burst: those with no message in the 300 seconds
\* before them.
BurstStarts == {t \in KiraTs : \A u \in KiraTs : u < t => t - u > BURST_GAP_SEC}

\* The day of 20 messages in 10 bursts of 2 at 10 cents each.
TwentyDay == day_events(TwentyGaps, 10, FALSE, FALSE)

\* C39: the message_batching rule fires, with severity high, exactly when
\* the bursts of today's primary-session messages are more than 5 and hold
\* fewer than 3 messages on average; its estimated savings are not negative,
\* and are positive for 20 messages in 10 bursts of 2 at 10 cents.
C39_BurstDensityRule ==
    burst_out # None =>
        LET out   == burst_out[1]
            fired == out.rules # <<>>
        IN  /\ out.burst_count = Cardinality(BurstStarts)
            /\ fired = (Cardinality(BurstStarts) > 5
                          /\ Cardinality(KiraTs) < 3 * Cardinality(BurstStarts))
            /\ fired => /\ out.rules[1].id = "message_batching"
                        /\ out.rules[1].severity = "high"
                        /\ out.rules[1].est_savings_usd >= 0
            /\ burst_in = TwentyDay => (fired /\ out.rules[1].est_savings_usd > 0)

\* The day of 20 messages was analysed: 10 bursts of 2, the rule fired.
C39_Witness ==
    /\ burst_out # None
    /\ burst_in = TwentyDay
    /\ burst_out[1].bursts = [i \in 1..10 |-> 2]
    /\ burst_out[1].rules # <<>>
    /\ burst_out[1].rules[1].est_savings_usd = 13

\* ---- Threshold webhook: claims ------------------------------------------------------------
\* The step is a check that attempts to send the webhook.
SendStep == alert_attempts' = alert_attempts + 1

====
